---- MODULE Spec2Model ----
(***************************************************************************)
(* Verification model of the membership / financial administration         *)
(* dashboard: the PaymentsList grouping, the ResetPasswordForm submit      *)
(* handler, the UserTable quick fix, the EmailTemplateList component, the  *)
(* FinancialManagement statistics and export, the useFinancialQueries hook *)
(* and the PerformanceMetrics query.  The views are independent            *)
(* components: a behaviour follows the one named by the variable mounted.  *)
(***************************************************************************)
EXTENDS Integers, Sequences, FiniteSets, TLC

VARIABLES
    mounted,               \* the view component this behaviour is about
    \* ---- PaymentsList (src/unnamed/part_001) ----
    paymentsData,          \* prop paymentsData: Payment[]
    paymentsByCollector,   \* result of the reduce, groups in key insertion order
    rendered,              \* TRUE once the component body has run on paymentsData
    loadingPayments,       \* prop loadingPayments
    sortedCollectors,      \* Object.values(paymentsByCollector) sorted by name
    openCollectors,        \* useState<string[]>([])
    toggledOdd,            \* history: the ids passed to toggleCollector an odd number of times
    lastClick,             \* last call of the handleApprove / handleDelete props
    \* ---- ResetPasswordForm (src/unnamed/part_003) ----
    token,                 \* prop token
    newPassword,           \* useState("")
    confirmPassword,       \* useState("")
    isLoading,             \* useState(false)
    rpPc,                  \* position of handleResetPassword
    rpCalls,               \* RPCs issued by the current / last invocation
    rpResults,             \* what those RPCs returned, in the same order
    rpToasts,              \* notifications of the current / last invocation
    rpNavigated,           \* navigate("/") was called
    \* ---- UserTable.handleQuickFix ----
    qfPc,                  \* position of each invocation
    qfMember,              \* memberNumber argument of each invocation
    qfCalls,               \* remote calls issued by each invocation
    qfResults,             \* what those calls returned
    qfToasts,              \* notifications shown by each invocation
    qfEscaped,             \* an error left the handler
    \* ---- EmailTemplateList ----
    selectedTemplate,      \* useState<any>(null)
    isDialogOpen,          \* useState(false): create / edit dialog
    previewDialogOpen,     \* useState(false)
    testEmailDialogOpen,   \* useState(false)
    smtpError,             \* useState<string | null>(null)
    testEmailFieldError,   \* validation message shown under the recipient field
    lastTestSubmit,        \* how the last submit of the test-email form ended
    sendPc,                \* position of the send-test-email mutation
    sendVars,              \* { to, template } the mutation was started with
    stSmtpConfig,          \* smtpConfig fetched by the running mutation
    stCalls,               \* remote calls issued by the current / last send-test mutation
    stToasts,              \* notifications of the current / last send-test mutation
    updatesInFlight,       \* ids of the update mutations not yet settled
    createsInFlight,       \* number of create mutations not yet settled
    lastSubmit,            \* write issued by the last onSubmit of the template form
    dialogOpenedBy,        \* button that opened the template dialog last
    \* ---- FinancialManagement (src/unnamed/part_000) ----
    paymentStats,          \* data of the "paymentStats" query (undefined until fetched)
    paymentsSummary,       \* const payments: statistics derived from paymentStats, or null
    lastExport,            \* exporter calls and notifications of the last handleExport
    collectorsData,        \* data of the "collectors" query (undefined until fetched)
    collectorStats,        \* collector statistics derived from collectorsData, or null
    \* ---- useFinancialQueries (src/unnamed/part_002) ----
    paymentsQuery,         \* state of useQuery(["payments"])
    collectorsQuery,       \* state of useQuery(["collectors"])
    settleOrder,           \* order in which the two first fetches settled
    \* ---- PerformanceMetrics ----
    rpcData,               \* rows returned by check_system_performance
    metrics,               \* data of the "performanceMetrics" query
    \* ---- PaymentHistoryCard ----
    downloadingReceipt,    \* useState<string | null>(null)
    runningDownloads,      \* per payment, the downloadReceipt calls still awaiting
    lastReceiptToast,      \* title of the notification shown last
    \* ---- sendPaymentNotification (src/utils/emailNotifications.ts) ----
    notifyPc,              \* position of the call
    notifyArgs,            \* payment, notificationType and dueDate of the call
    notifyEmails,          \* sendEmail calls made by the call
    notifyOutcome          \* how the call ended

paymentsVars == <<paymentsData, paymentsByCollector, rendered, loadingPayments,
                  sortedCollectors, openCollectors, toggledOdd, lastClick>>

resetVars == <<token, newPassword, confirmPassword, isLoading, rpPc, rpCalls,
               rpResults, rpToasts, rpNavigated>>

quickFixVars == <<qfPc, qfMember, qfCalls, qfResults, qfToasts, qfEscaped>>

emailVars == <<selectedTemplate, isDialogOpen, previewDialogOpen, testEmailDialogOpen,
               smtpError, testEmailFieldError, lastTestSubmit, sendPc, sendVars,
               stSmtpConfig, stCalls, stToasts, updatesInFlight, createsInFlight,
               lastSubmit, dialogOpenedBy>>

financeVars == <<paymentStats, paymentsSummary, lastExport, collectorsData, collectorStats>>

queriesVars == <<paymentsQuery, collectorsQuery, settleOrder>>

metricsVars == <<rpcData, metrics>>

receiptVars == <<downloadingReceipt, runningDownloads, lastReceiptToast>>

notifyVars == <<notifyPc, notifyArgs, notifyEmails, notifyOutcome>>

laterViews == <<financeVars, queriesVars, metricsVars, receiptVars, notifyVars>>

firstViews == <<paymentsVars, resetVars, quickFixVars, emailVars, receiptVars, notifyVars>>

priorViews == <<paymentsVars, resetVars, quickFixVars, emailVars, financeVars,
                queriesVars, metricsVars>>

vars == <<mounted, paymentsVars, resetVars, quickFixVars, emailVars, laterViews>>

(***************************************************************************)
(* PaymentsList: grouping of payments by collector                          *)
(***************************************************************************)

\* Bound: longest payments list explored.
MaxPayments == 2

\* A missing string (null / undefined / "") is the empty string: the code
\* only ever tests these values with `!x`, which treats them alike.
Missing == ""

Statuses == {"approved", "pending", "rejected"}

\* amount is a number or missing (hasAmount = FALSE).
Amounts == {[hasAmount |-> FALSE, value |-> 0],
            [hasAmount |-> TRUE, value |-> 25]}

\* The members_collectors relation of a payment: absent, without id,
\* without name, or complete.
CollectorRels == {[present |-> FALSE, id |-> Missing, name |-> Missing],
                  [present |-> TRUE, id |-> Missing, name |-> "Ann"],
                  [present |-> TRUE, id |-> "c1", name |-> Missing],
                  [present |-> TRUE, id |-> "c1", name |-> "Bob"],
                  [present |-> TRUE, id |-> "c2", name |-> "Ann"]}

\* Payment ids are the positions in the fetched list (primary keys are unique).
Payment(i, a, s, c) ==
    [id |-> i, amount |-> a, status |-> s, members_collectors |-> c]

PaymentLists ==
    UNION {{l \in [1..n -> Amounts \X Statuses \X CollectorRels] : TRUE} : n \in 0..MaxPayments}

MkPayments(l) ==
    [i \in DOMAIN l |-> Payment(i, l[i][1], l[i][2], l[i][3])]

\* payment.amount || 0
AmountOrZero(payment) ==
    IF payment.amount.hasAmount /\ payment.amount.value # 0
    THEN payment.amount.value ELSE 0

\* Variant of MissingCollectorInfo: only the id is tested.
MissingCollectorInfoIdOnly(payment) ==
    \/ ~payment.members_collectors.present
    \/ payment.members_collectors.id = Missing

\* !payment.members_collectors?.id || !payment.members_collectors?.name
MissingCollectorInfo(payment) ==
    \/ ~payment.members_collectors.present
    \/ payment.members_collectors.id = Missing
    \/ payment.members_collectors.name = Missing

\* Index of the group stored under key collectorId in acc, 0 when absent.
GroupIndex(acc, collectorId) ==
    IF \E k \in DOMAIN acc : acc[k].id = collectorId
    THEN CHOOSE k \in DOMAIN acc : acc[k].id = collectorId
    ELSE 0

\* acc[collectorId] = { id, name, payments: [], totalAmount: 0, ... }
NewGroup(collectorId, collectorName) ==
    [id |-> collectorId, name |-> collectorName, payments |-> <<>>,
     totalAmount |-> 0, approvedCount |-> 0, pendingCount |-> 0]

\* Variant of AddToGroup: the total is accumulated for approved payments only.
AddToGroupTotalApprovedOnly(group, payment) ==
    [group EXCEPT
        !.payments = Append(@, payment),
        !.totalAmount = @ + (IF payment.status = "approved" THEN AmountOrZero(payment) ELSE 0),
        !.approvedCount = @ + (IF payment.status = "approved" THEN 1 ELSE 0),
        !.pendingCount = @ + (IF payment.status = "pending" THEN 1 ELSE 0)]

\* Variant of AddToGroup: every payment that is not approved counts as pending.
AddToGroupPendingUnlessApproved(group, payment) ==
    [group EXCEPT
        !.payments = Append(@, payment),
        !.totalAmount = @ + AmountOrZero(payment),
        !.approvedCount = @ + (IF payment.status = "approved" THEN 1 ELSE 0),
        !.pendingCount = @ + (IF payment.status = "approved" THEN 0 ELSE 1)]

\* The four updates of the group the payment belongs to.
AddToGroup(group, payment) ==
    [group EXCEPT
        !.payments = Append(@, payment),
        !.totalAmount = @ + AmountOrZero(payment),
        !.approvedCount = @ + (IF payment.status = "approved" THEN 1 ELSE 0),
        !.pendingCount = @ + (IF payment.status = "pending" THEN 1 ELSE 0)]

\* Variant of GroupStep: a payment without collector info is collected in a
\* group of its own kind instead of being skipped.
GroupStepUnassignedGroup(acc, payment) ==
    LET collectorId == IF MissingCollectorInfo(payment) THEN "none"
                       ELSE payment.members_collectors.id
        collectorName == IF MissingCollectorInfo(payment) THEN "Unassigned"
                         ELSE payment.members_collectors.name
        acc1 == IF GroupIndex(acc, collectorId) = 0
                THEN Append(acc, NewGroup(collectorId, collectorName))
                ELSE acc
        k == GroupIndex(acc1, collectorId)
    IN [acc1 EXCEPT ![k] = AddToGroup(@, payment)]

\* One step of the reduce callback.
GroupStep(acc, payment) ==
    IF MissingCollectorInfo(payment) THEN acc
    ELSE LET collectorId == payment.members_collectors.id
             collectorName == payment.members_collectors.name
             acc1 == IF GroupIndex(acc, collectorId) = 0
                     THEN Append(acc, NewGroup(collectorId, collectorName))
                     ELSE acc
             k == GroupIndex(acc1, collectorId)
         IN [acc1 EXCEPT ![k] = AddToGroup(@, payment)]

\* paymentsData.reduce(callback, {}) over the first n payments.
RECURSIVE GroupPayments(_, _)
GroupPayments(payments, n) ==
    IF n = 0 THEN <<>>
    ELSE GroupStep(GroupPayments(payments, n - 1), payments[n])

\* The collation order of the collector names that occur.
NameOrder == <<"Ann", "Bob">>

NameRank(name) == CHOOSE r \in DOMAIN NameOrder : NameOrder[r] = name

\* a.localeCompare(b): negative, zero or positive.
LocaleCompare(a, b) ==
    IF NameRank(a) < NameRank(b) THEN -1
    ELSE IF NameRank(a) > NameRank(b) THEN 1
    ELSE 0

\* Variant of InsertCollector: the group is put at the end.
InsertCollectorAtEnd(sorted, group) == Append(sorted, group)

\* One insertion of the (stable) sort: group goes behind every group whose
\* name does not compare greater.
InsertCollector(sorted, group) ==
    LET n == Cardinality({k \in DOMAIN sorted :
                             LocaleCompare(sorted[k].name, group.name) <= 0})
    IN SubSeq(sorted, 1, n) \o <<group>> \o SubSeq(sorted, n + 1, Len(sorted))

\* Object.values(paymentsByCollector).sort((a, b) => a.name.localeCompare(b.name))
RECURSIVE SortCollectors(_)
SortCollectors(groups) ==
    IF groups = <<>> THEN <<>>
    ELSE InsertCollector(SortCollectors(SubSeq(groups, 1, Len(groups) - 1)),
                         groups[Len(groups)])

NoClick == [handler |-> "none", paymentId |-> 0]

\* The props at mount: still loading (no data yet) or a fetched list;
\* nothing is grouped and every collector is closed.
PaymentsStart ==
    /\ loadingPayments \in BOOLEAN
    /\ paymentsData \in IF loadingPayments THEN {<<>>}
                        ELSE {MkPayments(l) : l \in PaymentLists}
    /\ paymentsByCollector = <<>>
    /\ sortedCollectors = <<>>
    /\ rendered = FALSE
    /\ openCollectors = <<>>
    /\ toggledOdd = {}
    /\ lastClick = NoClick

\* The component body runs: the grouping and the sorted collector list are
\* computed from the props.
Render ==
    /\ mounted = "PaymentsList"
    /\ ~rendered
    /\ paymentsByCollector' = GroupPayments(paymentsData, Len(paymentsData))
    /\ sortedCollectors' = SortCollectors(paymentsByCollector')
    /\ rendered' = TRUE
    /\ UNCHANGED <<paymentsData, loadingPayments, openCollectors, toggledOdd, lastClick,
                   resetVars, quickFixVars, emailVars, laterViews, mounted>>

\* The payments query of the parent resolves: loadingPayments turns false
\* and the fetched list is passed.
PaymentsLoaded ==
    /\ mounted = "PaymentsList"
    /\ loadingPayments
    /\ loadingPayments' = FALSE
    /\ paymentsData' \in {MkPayments(l) : l \in PaymentLists}
    /\ paymentsByCollector' = <<>>
    /\ sortedCollectors' = <<>>
    /\ rendered' = FALSE
    /\ lastClick' = NoClick
    /\ UNCHANGED <<openCollectors, toggledOdd, resetVars, quickFixVars, emailVars, laterViews, mounted>>

\* The parent passes a refetched list with one more payment; the next render
\* regroups it.
PaymentAdded ==
    /\ mounted = "PaymentsList"
    /\ rendered
    /\ ~loadingPayments
    /\ Len(paymentsData) < MaxPayments
    /\ \E a \in Amounts, s \in Statuses, c \in CollectorRels :
          paymentsData' = Append(paymentsData, Payment(Len(paymentsData) + 1, a, s, c))
    /\ paymentsByCollector' = <<>>
    /\ sortedCollectors' = <<>>
    /\ rendered' = FALSE
    /\ lastClick' = NoClick
    /\ UNCHANGED <<loadingPayments, openCollectors, toggledOdd, resetVars, quickFixVars, emailVars,
                   laterViews, mounted>>

\* The collector list is on screen: not loading, payments present and at
\* least one collector group.
CollectorListShown ==
    /\ rendered
    /\ ~loadingPayments
    /\ Len(paymentsData) # 0
    /\ Len(sortedCollectors) # 0

\* openCollectors.includes(collectorId)
IsOpen(collectorId) == \E k \in DOMAIN openCollectors : openCollectors[k] = collectorId

\* prev.filter(id => id !== collectorId)
RECURSIVE WithoutId(_, _)
WithoutId(ids, collectorId) ==
    IF ids = <<>> THEN <<>>
    ELSE IF Head(ids) # collectorId
         THEN <<Head(ids)>> \o WithoutId(Tail(ids), collectorId)
         ELSE WithoutId(Tail(ids), collectorId)

\* Variant of Toggled: the id is appended whether or not it is included.
ToggledAlwaysAppend(prev, collectorId) == Append(prev, collectorId)

\* prev.includes(collectorId) ? prev.filter(id => id !== collectorId)
\*                            : [...prev, collectorId]
Toggled(prev, collectorId) ==
    IF \E k \in DOMAIN prev : prev[k] = collectorId
    THEN WithoutId(prev, collectorId)
    ELSE Append(prev, collectorId)

\* toggleCollector(collector.id) through the Collapsible of a shown collector.
ToggleCollector ==
    /\ mounted = "PaymentsList"
    /\ CollectorListShown
    /\ \E k \in DOMAIN sortedCollectors :
         LET collectorId == sortedCollectors[k].id IN
         /\ openCollectors' = Toggled(openCollectors, collectorId)
         /\ toggledOdd' = IF collectorId \in toggledOdd
                          THEN toggledOdd \ {collectorId}
                          ELSE toggledOdd \cup {collectorId}
    /\ UNCHANGED <<paymentsData, paymentsByCollector, rendered, loadingPayments,
                   sortedCollectors, lastClick, resetVars, quickFixVars, emailVars,
                   laterViews, mounted>>

\* Variant of ApproveOffered: the button is hidden for approved payments only.
ApproveOfferedUnlessApproved(payment) == payment.status # "approved"

\* payment.status === 'pending' && <Button onClick={() => handleApprove(payment.id)}>
ApproveOffered(payment) == payment.status = "pending"

\* The buttons of the row of payment j in the table of shown collector k;
\* the table is inside the CollapsibleContent of an open collector.
RowActions(k, j) ==
    IF CollectorListShown /\ IsOpen(sortedCollectors[k].id)
    THEN (IF ApproveOffered(sortedCollectors[k].payments[j]) THEN {"approve"} ELSE {})
         \cup {"delete"}
    ELSE {}

\* The approve button of a row is clicked: handleApprove(payment.id).
ClickApprove ==
    /\ mounted = "PaymentsList"
    /\ \E k \in DOMAIN sortedCollectors :
         \E j \in DOMAIN sortedCollectors[k].payments :
            /\ "approve" \in RowActions(k, j)
            /\ lastClick' = [handler |-> "handleApprove",
                             paymentId |-> sortedCollectors[k].payments[j].id]
    /\ UNCHANGED <<paymentsData, paymentsByCollector, rendered, loadingPayments,
                   sortedCollectors, openCollectors, toggledOdd, resetVars, quickFixVars,
                   emailVars,
                   laterViews, mounted>>

\* The delete button of a row is clicked: handleDelete(payment.id).
ClickDelete ==
    /\ mounted = "PaymentsList"
    /\ \E k \in DOMAIN sortedCollectors :
         \E j \in DOMAIN sortedCollectors[k].payments :
            /\ "delete" \in RowActions(k, j)
            /\ lastClick' = [handler |-> "handleDelete",
                             paymentId |-> sortedCollectors[k].payments[j].id]
    /\ UNCHANGED <<paymentsData, paymentsByCollector, rendered, loadingPayments,
                   sortedCollectors, openCollectors, toggledOdd, resetVars, quickFixVars,
                   emailVars,
                   laterViews, mounted>>

(***************************************************************************)
(* ResetPasswordForm.handleResetPassword                                   *)
(***************************************************************************)

\* Bound: longest password typed into the form.
MaxPasswordLen == 9

\* newPassword.length < 8
MinPasswordLength == 8

Tokens == {"tokA", "tokB"}

\* Strings are sequences of characters.
RECURSIVE Repeat(_, _)
Repeat(c, n) == IF n = 0 THEN <<>> ELSE Append(Repeat(c, n - 1), c)

\* The passwords typed: every length up to the bound, and for each length
\* a second string differing in its last character.
Passwords ==
    {Repeat("a", n) : n \in 0..MaxPasswordLen}
    \cup {Append(Repeat("a", n - 1), "b") : n \in 1..MaxPasswordLen}

\* error.message of a returned or thrown error; may be empty.
ErrorMessages == {"", "backend failure"}

LengthError == "Password must be at least 8 characters long"
MismatchError == "Passwords do not match"
InvalidTokenError == "Invalid or expired reset token"
ResetFallbackError == "Failed to reset password"
ResetSuccess == "Password has been reset successfully"

Toast(variant, description) == [variant |-> variant, description |-> description]

\* supabase.rpc("validate_reset_token", { token_value: token })
ValidateCall(tok) == [fn |-> "validate_reset_token", token_value |-> tok]

\* supabase.rpc("handle_password_reset_with_token", { token_value, new_password })
ResetCall(tok, pw) ==
    [fn |-> "handle_password_reset_with_token", token_value |-> tok, new_password |-> pw]

\* What an awaited remote call produced: a { data, error } pair, or a
\* rejection (threw = TRUE) carrying an error message.
Returned(hasError, message, hasData) ==
    [threw |-> FALSE, error |-> hasError, message |-> message, data |-> hasData]
Threw(message) ==
    [threw |-> TRUE, error |-> TRUE, message |-> message, data |-> FALSE]

\* error.message || "Failed to reset password"
ResetErrorDescription(message) ==
    IF message # "" THEN message ELSE ResetFallbackError

\* The form as mounted with its token prop.
ResetStart ==
    /\ token \in Tokens
    /\ newPassword = <<>>
    /\ confirmPassword = <<>>
    /\ isLoading = FALSE
    /\ rpPc = "idle"
    /\ rpCalls = <<>>
    /\ rpResults = <<>>
    /\ rpToasts = <<>>
    /\ rpNavigated = FALSE

\* Variant of ControlsDisabled: the controls stay enabled while loading.
ControlsDisabledNever(loading) == FALSE

\* disabled={isLoading} on both inputs and on the submit button.
ControlsDisabled(loading) == loading

\* onChange of the newPassword input (disabled while isLoading).
TypeNewPassword ==
    /\ mounted = "ResetPasswordForm"
    /\ ~ControlsDisabled(isLoading) /\ ~rpNavigated
    /\ \E p \in Passwords : newPassword' = p
    /\ newPassword' # newPassword
    /\ UNCHANGED <<token, confirmPassword, isLoading, rpPc, rpCalls, rpResults,
                   rpToasts, rpNavigated, paymentsVars, quickFixVars, emailVars, laterViews, mounted>>

\* onChange of the confirmPassword input (disabled while isLoading).
TypeConfirmPassword ==
    /\ mounted = "ResetPasswordForm"
    /\ ~ControlsDisabled(isLoading) /\ ~rpNavigated
    /\ \E p \in Passwords : confirmPassword' = p
    /\ confirmPassword' # confirmPassword
    /\ UNCHANGED <<token, newPassword, isLoading, rpPc, rpCalls, rpResults,
                   rpToasts, rpNavigated, paymentsVars, quickFixVars, emailVars, laterViews, mounted>>

\* Variant of PasswordCheck: the two checks in the opposite order.
PasswordCheckMismatchFirst(newPw, confirmPw) ==
    IF newPw # confirmPw THEN "mismatch"
    ELSE IF Len(newPw) < MinPasswordLength THEN "short"
    ELSE "ok"

\* The two client-side checks in the order the handler makes them.
PasswordCheck(newPw, confirmPw) ==
    IF Len(newPw) < MinPasswordLength THEN "short"
    ELSE IF newPw # confirmPw THEN "mismatch"
    ELSE "ok"

\* onSubmit up to its first await: a failed check toasts and returns
\* (isLoading is set back to false before the handler returns); otherwise
\* validate_reset_token is issued and the handler waits for it.
SubmitResetPassword ==
    /\ mounted = "ResetPasswordForm"
    /\ ~ControlsDisabled(isLoading) /\ ~rpNavigated
    /\ rpResults' = <<>>
    /\ LET check == PasswordCheck(newPassword, confirmPassword) IN
         IF check = "short"
         THEN /\ rpToasts' = <<Toast("destructive", LengthError)>>
              /\ rpCalls' = <<>>
              /\ isLoading' = FALSE
              /\ rpPc' = "done"
         ELSE IF check = "mismatch"
         THEN /\ rpToasts' = <<Toast("destructive", MismatchError)>>
              /\ rpCalls' = <<>>
              /\ isLoading' = FALSE
              /\ rpPc' = "done"
         ELSE /\ rpToasts' = <<>>
              /\ rpCalls' = <<ValidateCall(token)>>
              /\ isLoading' = TRUE
              /\ rpPc' = "validating"
    /\ UNCHANGED <<token, newPassword, confirmPassword, rpNavigated,
                   paymentsVars, quickFixVars, emailVars, laterViews, mounted>>

\* Variant of TokenRejected: a falsy result without error is accepted.
TokenRejectedErrorOnly(tokenError, tokenData) == tokenError

\* tokenError || !tokenData
TokenRejected(tokenError, tokenData) == tokenError \/ ~tokenData

\* Variant of ValidateReturns: the rejected-token return skips the finally.
ValidateReturnsSkippingFinally ==
    /\ mounted = "ResetPasswordForm"
    /\ rpPc = "validating"
    /\ \E tokenError \in BOOLEAN, tokenData \in BOOLEAN, m \in ErrorMessages :
         /\ rpResults' = Append(rpResults, Returned(tokenError, m, tokenData))
         /\ IF TokenRejected(tokenError, tokenData)
            THEN /\ rpToasts' = Append(rpToasts, Toast("destructive", InvalidTokenError))
                 /\ rpPc' = "done"
                 /\ UNCHANGED <<rpCalls, isLoading>>
            ELSE /\ rpCalls' = Append(rpCalls, ResetCall(token, newPassword))
                 /\ rpPc' = "resetting"
                 /\ UNCHANGED <<rpToasts, isLoading>>
    /\ UNCHANGED <<token, newPassword, confirmPassword, rpNavigated,
                   paymentsVars, quickFixVars, emailVars, laterViews, mounted>>

\* validate_reset_token resolves with { data, error }.
ValidateReturns ==
    /\ mounted = "ResetPasswordForm"
    /\ rpPc = "validating"
    /\ \E tokenError \in BOOLEAN, tokenData \in BOOLEAN, m \in ErrorMessages :
         /\ rpResults' = Append(rpResults, Returned(tokenError, m, tokenData))
         /\ IF TokenRejected(tokenError, tokenData)
            THEN /\ rpToasts' = Append(rpToasts, Toast("destructive", InvalidTokenError))
                 /\ isLoading' = FALSE
                 /\ rpPc' = "done"
                 /\ UNCHANGED rpCalls
            ELSE /\ rpCalls' = Append(rpCalls, ResetCall(token, newPassword))
                 /\ rpPc' = "resetting"
                 /\ UNCHANGED <<rpToasts, isLoading>>
    /\ UNCHANGED <<token, newPassword, confirmPassword, rpNavigated,
                   paymentsVars, quickFixVars, emailVars, laterViews, mounted>>

\* validate_reset_token rejects: catch, then finally.
ValidateThrows ==
    /\ mounted = "ResetPasswordForm"
    /\ rpPc = "validating"
    /\ \E m \in ErrorMessages :
         /\ rpResults' = Append(rpResults, Threw(m))
         /\ rpToasts' = Append(rpToasts, Toast("destructive", ResetErrorDescription(m)))
    /\ isLoading' = FALSE
    /\ rpPc' = "done"
    /\ UNCHANGED <<token, newPassword, confirmPassword, rpCalls, rpNavigated,
                   paymentsVars, quickFixVars, emailVars, laterViews, mounted>>

\* Variant of ResetReturns: resetError is not thrown.
ResetReturnsIgnoringError ==
    /\ mounted = "ResetPasswordForm"
    /\ rpPc = "resetting"
    /\ \E resetError \in BOOLEAN, m \in ErrorMessages :
         rpResults' = Append(rpResults, Returned(resetError, m, FALSE))
    /\ rpToasts' = Append(rpToasts, Toast("default", ResetSuccess))
    /\ rpNavigated' = TRUE
    /\ isLoading' = FALSE
    /\ rpPc' = "done"
    /\ UNCHANGED <<token, newPassword, confirmPassword, rpCalls,
                   paymentsVars, quickFixVars, emailVars, laterViews, mounted>>

\* handle_password_reset_with_token resolves with { error }.
ResetReturns ==
    /\ mounted = "ResetPasswordForm"
    /\ rpPc = "resetting"
    /\ \E resetError \in BOOLEAN, m \in ErrorMessages :
         /\ rpResults' = Append(rpResults, Returned(resetError, m, FALSE))
         /\ IF resetError
            THEN /\ rpToasts' = Append(rpToasts, Toast("destructive", ResetErrorDescription(m)))
                 /\ UNCHANGED rpNavigated
            ELSE /\ rpToasts' = Append(rpToasts, Toast("default", ResetSuccess))
                 /\ rpNavigated' = TRUE
    /\ isLoading' = FALSE
    /\ rpPc' = "done"
    /\ UNCHANGED <<token, newPassword, confirmPassword, rpCalls,
                   paymentsVars, quickFixVars, emailVars, laterViews, mounted>>

\* handle_password_reset_with_token rejects: catch, then finally.
ResetThrows ==
    /\ mounted = "ResetPasswordForm"
    /\ rpPc = "resetting"
    /\ \E m \in ErrorMessages :
         /\ rpResults' = Append(rpResults, Threw(m))
         /\ rpToasts' = Append(rpToasts, Toast("destructive", ResetErrorDescription(m)))
    /\ isLoading' = FALSE
    /\ rpPc' = "done"
    /\ UNCHANGED <<token, newPassword, confirmPassword, rpCalls, rpNavigated,
                   paymentsVars, quickFixVars, emailVars, laterViews, mounted>>

(***************************************************************************)
(* UserTable.handleQuickFix                                                *)
(***************************************************************************)

\* Bound: number of "Quick Fix Login" clicks explored; the button is never
\* disabled, so invocations may overlap.
MaxQuickFixClicks == 2

QuickFixClicks == 1..MaxQuickFixClicks

\* user.member_number of the rows shown; Missing for a user without one.
MemberNumbers == {Missing, "M1", "M2"}

MemberRequiredError == "Member number is required"

\* supabase.from('members').update({...}).eq('member_number', memberNumber)
UpdateMembersCall(memberNumber) ==
    [fn |-> "update_members", member_number |-> memberNumber]

\* supabase.from('failed_login_attempts').delete().eq('member_number', memberNumber)
DeleteAttemptsCall(memberNumber) ==
    [fn |-> "delete_failed_login_attempts", member_number |-> memberNumber]

\* description: `Login state reset for member ${memberNumber}`
QuickFixSuccess(memberNumber) == <<"Login state reset for member", memberNumber>>

\* Variant of QuickFixCatch: the error is logged and rethrown.
QuickFixCatchRethrow(toasts, message) ==
    [toasts |-> toasts, escaped |-> TRUE]

\* The catch block: the error is logged and shown, nothing is rethrown.
QuickFixCatch(toasts, message) ==
    [toasts |-> Append(toasts, Toast("destructive", <<message>>)), escaped |-> FALSE]

QuickFixStart ==
    /\ qfPc = [i \in QuickFixClicks |-> "idle"]
    /\ qfMember = [i \in QuickFixClicks |-> Missing]
    /\ qfCalls = [i \in QuickFixClicks |-> <<>>]
    /\ qfResults = [i \in QuickFixClicks |-> <<>>]
    /\ qfToasts = [i \in QuickFixClicks |-> <<>>]
    /\ qfEscaped = [i \in QuickFixClicks |-> FALSE]

\* handleQuickFix(user.member_number) up to its first await.
QuickFixClick ==
    \E i \in QuickFixClicks, memberNumber \in MemberNumbers :
        /\ mounted = "UserTable"
        /\ qfPc[i] = "idle"
        /\ \A j \in QuickFixClicks : j < i => qfPc[j] # "idle"
        /\ qfMember' = [qfMember EXCEPT ![i] = memberNumber]
        /\ IF memberNumber = Missing
           THEN /\ qfToasts' = [qfToasts EXCEPT
                                  ![i] = <<Toast("destructive", <<MemberRequiredError>>)>>]
                /\ qfPc' = [qfPc EXCEPT ![i] = "done"]
                /\ UNCHANGED qfCalls
           ELSE /\ qfCalls' = [qfCalls EXCEPT ![i] = <<UpdateMembersCall(memberNumber)>>]
                /\ qfPc' = [qfPc EXCEPT ![i] = "updating"]
                /\ UNCHANGED qfToasts
        /\ UNCHANGED <<qfResults, qfEscaped, paymentsVars, resetVars, emailVars, laterViews, mounted>>

\* Variant of UpdateReturns: updateError is not thrown.
UpdateReturnsIgnoringError ==
    \E i \in QuickFixClicks, updateError \in BOOLEAN, m \in ErrorMessages :
        /\ mounted = "UserTable"
        /\ qfPc[i] = "updating"
        /\ qfResults' = [qfResults EXCEPT ![i] = Append(@, Returned(updateError, m, FALSE))]
        /\ qfCalls' = [qfCalls EXCEPT ![i] = Append(@, DeleteAttemptsCall(qfMember[i]))]
        /\ qfPc' = [qfPc EXCEPT ![i] = "deleting"]
        /\ UNCHANGED <<qfToasts, qfEscaped, qfMember, paymentsVars, resetVars, emailVars,
                       laterViews, mounted>>

\* The members update resolves with { error }.
UpdateReturns ==
    \E i \in QuickFixClicks, updateError \in BOOLEAN, m \in ErrorMessages :
        /\ mounted = "UserTable"
        /\ qfPc[i] = "updating"
        /\ qfResults' = [qfResults EXCEPT ![i] = Append(@, Returned(updateError, m, FALSE))]
        /\ IF updateError
           THEN LET c == QuickFixCatch(qfToasts[i], m) IN
                /\ qfToasts' = [qfToasts EXCEPT ![i] = c.toasts]
                /\ qfEscaped' = [qfEscaped EXCEPT ![i] = c.escaped]
                /\ qfPc' = [qfPc EXCEPT ![i] = "done"]
                /\ UNCHANGED qfCalls
           ELSE /\ qfCalls' = [qfCalls EXCEPT ![i] = Append(@, DeleteAttemptsCall(qfMember[i]))]
                /\ qfPc' = [qfPc EXCEPT ![i] = "deleting"]
                /\ UNCHANGED <<qfToasts, qfEscaped>>
        /\ UNCHANGED <<qfMember, paymentsVars, resetVars, emailVars, laterViews, mounted>>

\* The members update rejects.
UpdateThrows ==
    \E i \in QuickFixClicks, m \in ErrorMessages :
        /\ mounted = "UserTable"
        /\ qfPc[i] = "updating"
        /\ qfResults' = [qfResults EXCEPT ![i] = Append(@, Threw(m))]
        /\ LET c == QuickFixCatch(qfToasts[i], m) IN
             /\ qfToasts' = [qfToasts EXCEPT ![i] = c.toasts]
             /\ qfEscaped' = [qfEscaped EXCEPT ![i] = c.escaped]
        /\ qfPc' = [qfPc EXCEPT ![i] = "done"]
        /\ UNCHANGED <<qfMember, qfCalls, paymentsVars, resetVars, emailVars, laterViews, mounted>>

\* The failed_login_attempts delete resolves with { error }.
DeleteReturns ==
    \E i \in QuickFixClicks, deleteError \in BOOLEAN, m \in ErrorMessages :
        /\ mounted = "UserTable"
        /\ qfPc[i] = "deleting"
        /\ qfResults' = [qfResults EXCEPT ![i] = Append(@, Returned(deleteError, m, FALSE))]
        /\ IF deleteError
           THEN LET c == QuickFixCatch(qfToasts[i], m) IN
                /\ qfToasts' = [qfToasts EXCEPT ![i] = c.toasts]
                /\ qfEscaped' = [qfEscaped EXCEPT ![i] = c.escaped]
           ELSE /\ qfToasts' = [qfToasts EXCEPT
                                  ![i] = Append(@, Toast("default", QuickFixSuccess(qfMember[i])))]
                /\ UNCHANGED qfEscaped
        /\ qfPc' = [qfPc EXCEPT ![i] = "done"]
        /\ UNCHANGED <<qfMember, qfCalls, paymentsVars, resetVars, emailVars, laterViews, mounted>>

\* The failed_login_attempts delete rejects.
DeleteThrows ==
    \E i \in QuickFixClicks, m \in ErrorMessages :
        /\ mounted = "UserTable"
        /\ qfPc[i] = "deleting"
        /\ qfResults' = [qfResults EXCEPT ![i] = Append(@, Threw(m))]
        /\ LET c == QuickFixCatch(qfToasts[i], m) IN
             /\ qfToasts' = [qfToasts EXCEPT ![i] = c.toasts]
             /\ qfEscaped' = [qfEscaped EXCEPT ![i] = c.escaped]
        /\ qfPc' = [qfPc EXCEPT ![i] = "done"]
        /\ UNCHANGED <<qfMember, qfCalls, paymentsVars, resetVars, emailVars, laterViews, mounted>>

(***************************************************************************)
(* EmailTemplateList                                                       *)
(***************************************************************************)

\* Bound: longest recipient address typed into the test-email form.
MaxRecipientLen == 6

\* Bound: create / update mutations that may be awaiting the backend at once.
MaxPendingWrites == 1

Whitespace == {" ", "\t"}

\* String.prototype.trim: leading and trailing whitespace removed.
RECURSIVE TrimLeft(_)
TrimLeft(str) ==
    IF str # <<>> /\ Head(str) \in Whitespace THEN TrimLeft(Tail(str)) ELSE str

RECURSIVE TrimRight(_)
TrimRight(str) ==
    IF str # <<>> /\ str[Len(str)] \in Whitespace
    THEN TrimRight(SubSeq(str, 1, Len(str) - 1)) ELSE str

Trim(str) == TrimRight(TrimLeft(str))

\* selectedTemplate === null
NoTemplate == [id |-> Missing, subject |-> Missing, body |-> <<>>]

\* The rows of email_templates shown in the table: one with text inside
\* surrounding blanks, one with blanks only.
Templates ==
    {[id |-> "t1", subject |-> "Welcome", body |-> <<" ", "h", "i", " ">>],
     [id |-> "t2", subject |-> "Blank", body |-> <<" ", "\t">>]}

\* smtpConfig before the select has returned a row.
NoConfig ==
    [host |-> Missing, port |-> 0, username |-> Missing, secret_key |-> Missing,
     from_address |-> Missing]

\* Rows of smtp_configurations the select may return as the active one.
SmtpConfigs ==
    {[host |-> "smtp.one", port |-> 587, username |-> "user1", secret_key |-> "key1",
      from_address |-> "from1"],
     [host |-> "smtp.two", port |-> 465, username |-> "user2", secret_key |-> "key2",
      from_address |-> "from2"]}

EmailChars == {"a", "@", "."}

Recipients == UNION {[1..n -> EmailChars] : n \in 0..MaxRecipientLen}

\* Positions of "@" in str.
AtPositions(str) == {k \in DOMAIN str : str[k] = "@"}

\* z.string().email(): not starting with a dot, no two dots in a row, a local
\* part ending in a non-dot character, "@", one or more dot-terminated labels
\* and a final label of at least two letters.
IsEmail(str) ==
    /\ str # <<>>
    /\ str[1] # "."
    /\ \A k \in 1..(Len(str) - 1) : ~(str[k] = "." /\ str[k + 1] = ".")
    /\ Cardinality(AtPositions(str)) = 1
    /\ LET at == CHOOSE k \in AtPositions(str) : TRUE
           lastDot == IF \E k \in (at + 1)..Len(str) : str[k] = "."
                      THEN CHOOSE k \in (at + 1)..Len(str) :
                               /\ str[k] = "."
                               /\ \A j \in (k + 1)..Len(str) : str[j] # "."
                      ELSE 0
       IN /\ at > 1
          /\ str[at - 1] # "."
          /\ at < Len(str)
          /\ str[at + 1] # "."
          /\ lastDot # 0
          /\ Len(str) - lastDot >= 2

\* The typed addresses the validator accepts, and those it rejects.
AcceptedRecipients == {r \in Recipients : IsEmail(r)}
RejectedRecipients == {r \in Recipients : ~IsEmail(r)}

NoSmtpConfigError == "No active SMTP configuration found. Please configure SMTP settings first."
EmptyBodyError == "Template body cannot be empty"
SendFailedToast == "Failed to send test email. Please check SMTP configuration."
SendSuccessToast == "Test email sent successfully. Please check your inbox."

\* supabase.from('smtp_configurations').select('*').eq('is_active', true).single()
SmtpSelectCall == [fn |-> "select_smtp_configurations"]

\* Variant of SendEmailCall: the SMTP password is taken from username.
SendEmailCallUsernameAsPassword(to, template, smtpConfig) ==
    [fn |-> "send-email",
     to |-> to,
     subject |-> template.subject,
     html |-> template.body,
     smtp |-> [host |-> smtpConfig.host,
               port |-> smtpConfig.port,
               username |-> smtpConfig.username,
               password |-> smtpConfig.username,
               from |-> smtpConfig.from_address]]

\* supabase.functions.invoke('send-email', { body: {...} })
SendEmailCall(to, template, smtpConfig) ==
    [fn |-> "send-email",
     to |-> to,
     subject |-> template.subject,
     html |-> template.body,
     smtp |-> [host |-> smtpConfig.host,
               port |-> smtpConfig.port,
               username |-> smtpConfig.username,
               password |-> smtpConfig.secret_key,
               from |-> smtpConfig.from_address]]

\* Variant of TestSubmitOutcome: handleSendTestEmail without its early return.
TestSubmitOutcomeNoTemplateCheck(to, template) ==
    IF ~IsEmail(to) THEN "invalid" ELSE "started"

\* handleSubmit runs the zod resolver first; handleSendTestEmail then
\* returns early without a selected template.
TestSubmitOutcome(to, template) ==
    IF ~IsEmail(to) THEN "invalid"
    ELSE IF template = NoTemplate THEN "noTemplate"
    ELSE "started"

\* !template.body.trim()
BodyIsBlank(template) == Trim(template.body) = <<>>

\* The dialogs are modal: the table buttons and the New Template trigger
\* can be used only while no dialog is open.
NoDialogOpen == ~isDialogOpen /\ ~previewDialogOpen /\ ~testEmailDialogOpen

otherViews == <<mounted, paymentsVars, resetVars, quickFixVars, laterViews>>
sendMutVars == <<sendPc, sendVars, stSmtpConfig, stCalls, stToasts>>
writeMutVars == <<updatesInFlight, createsInFlight, lastSubmit>>

EmailStart ==
    /\ selectedTemplate = NoTemplate
    /\ isDialogOpen = FALSE
    /\ previewDialogOpen = FALSE
    /\ testEmailDialogOpen = FALSE
    /\ smtpError = Missing
    /\ testEmailFieldError = FALSE
    /\ lastTestSubmit = "none"
    /\ sendPc = "idle"
    /\ sendVars = [to |-> <<>>, template |-> NoTemplate]
    /\ stSmtpConfig = NoConfig
    /\ stCalls = <<>>
    /\ stToasts = <<>>
    /\ updatesInFlight = <<>>
    /\ createsInFlight = 0
    /\ lastSubmit = [fn |-> "none", id |-> Missing]
    /\ dialogOpenedBy = "none"

\* DialogTrigger "New Template": onOpenChange(true).
ClickNewTemplate ==
    /\ mounted = "EmailTemplateList"
    /\ NoDialogOpen
    /\ isDialogOpen' = TRUE
    /\ dialogOpenedBy' = "new"
    /\ UNCHANGED <<selectedTemplate, previewDialogOpen, testEmailDialogOpen, smtpError,
                   testEmailFieldError, lastTestSubmit, sendMutVars, writeMutVars,
                   otherViews>>

\* The template dialog is dismissed (Escape, overlay, X): onOpenChange(false).
DismissTemplateDialog ==
    /\ mounted = "EmailTemplateList"
    /\ isDialogOpen
    /\ isDialogOpen' = FALSE
    /\ selectedTemplate' = NoTemplate
    /\ UNCHANGED <<previewDialogOpen, testEmailDialogOpen, smtpError,
                   testEmailFieldError, lastTestSubmit, sendMutVars, writeMutVars,
                   dialogOpenedBy, otherViews>>

\* Cancel button of the template form: setIsDialogOpen(false) only.
CancelTemplateDialog ==
    /\ mounted = "EmailTemplateList"
    /\ isDialogOpen
    /\ isDialogOpen' = FALSE
    /\ UNCHANGED <<selectedTemplate, previewDialogOpen, testEmailDialogOpen, smtpError,
                   testEmailFieldError, lastTestSubmit, sendMutVars, writeMutVars,
                   dialogOpenedBy, otherViews>>

\* handleEdit(template)
ClickEdit ==
    /\ mounted = "EmailTemplateList"
    /\ NoDialogOpen
    /\ \E t \in Templates : selectedTemplate' = t
    /\ isDialogOpen' = TRUE
    /\ dialogOpenedBy' = "edit"
    /\ UNCHANGED <<previewDialogOpen, testEmailDialogOpen, smtpError,
                   testEmailFieldError, lastTestSubmit, sendMutVars, writeMutVars,
                   otherViews>>

\* onSubmit(data) of the template form.
SubmitTemplateForm ==
    /\ mounted = "EmailTemplateList"
    /\ isDialogOpen
    /\ Len(updatesInFlight) + createsInFlight < MaxPendingWrites
    /\ IF selectedTemplate # NoTemplate
       THEN /\ updatesInFlight' = Append(updatesInFlight, selectedTemplate.id)
            /\ lastSubmit' = [fn |-> "update", id |-> selectedTemplate.id]
            /\ UNCHANGED createsInFlight
       ELSE /\ createsInFlight' = createsInFlight + 1
            /\ lastSubmit' = [fn |-> "insert", id |-> Missing]
            /\ UNCHANGED updatesInFlight
    /\ UNCHANGED <<selectedTemplate, isDialogOpen, previewDialogOpen, testEmailDialogOpen,
                   smtpError, testEmailFieldError, lastTestSubmit, sendMutVars,
                   dialogOpenedBy, otherViews>>

\* Variant of UpdateSettles: a failed update clears the selection too.
UpdateSettlesClearingOnError ==
    \E k \in DOMAIN updatesInFlight, failed \in BOOLEAN :
        /\ mounted = "EmailTemplateList"
        /\ updatesInFlight' = [j \in 1..(Len(updatesInFlight) - 1) |->
                                 IF j < k THEN updatesInFlight[j] ELSE updatesInFlight[j + 1]]
        /\ IF failed
           THEN /\ selectedTemplate' = NoTemplate
                /\ UNCHANGED isDialogOpen
           ELSE /\ isDialogOpen' = FALSE
                /\ selectedTemplate' = NoTemplate
        /\ UNCHANGED <<previewDialogOpen, testEmailDialogOpen, smtpError,
                       testEmailFieldError, lastTestSubmit, sendMutVars,
                       createsInFlight, lastSubmit, dialogOpenedBy, otherViews>>

\* An update mutation settles: onSuccess closes the dialog and clears the
\* selection, onError only notifies.
UpdateSettles ==
    \E k \in DOMAIN updatesInFlight, failed \in BOOLEAN :
        /\ mounted = "EmailTemplateList"
        /\ updatesInFlight' = [j \in 1..(Len(updatesInFlight) - 1) |->
                                 IF j < k THEN updatesInFlight[j] ELSE updatesInFlight[j + 1]]
        /\ IF failed
           THEN UNCHANGED <<isDialogOpen, selectedTemplate>>
           ELSE /\ isDialogOpen' = FALSE
                /\ selectedTemplate' = NoTemplate
        /\ UNCHANGED <<previewDialogOpen, testEmailDialogOpen, smtpError,
                       testEmailFieldError, lastTestSubmit, sendMutVars,
                       createsInFlight, lastSubmit, dialogOpenedBy, otherViews>>

\* A create mutation settles: onSuccess closes the dialog.
CreateSettles ==
    /\ mounted = "EmailTemplateList"
    /\ createsInFlight > 0
    /\ createsInFlight' = createsInFlight - 1
    /\ \E failed \in BOOLEAN :
         isDialogOpen' = IF failed THEN isDialogOpen ELSE FALSE
    /\ UNCHANGED <<selectedTemplate, previewDialogOpen, testEmailDialogOpen, smtpError,
                   testEmailFieldError, lastTestSubmit, sendMutVars,
                   updatesInFlight, lastSubmit, dialogOpenedBy, otherViews>>

\* handlePreview(template)
ClickPreview ==
    /\ mounted = "EmailTemplateList"
    /\ NoDialogOpen
    /\ \E t \in Templates : selectedTemplate' = t
    /\ previewDialogOpen' = TRUE
    /\ UNCHANGED <<isDialogOpen, testEmailDialogOpen, smtpError,
                   testEmailFieldError, lastTestSubmit, sendMutVars, writeMutVars,
                   dialogOpenedBy, otherViews>>

\* The preview dialog is dismissed: onOpenChange = setPreviewDialogOpen.
ClosePreview ==
    /\ mounted = "EmailTemplateList"
    /\ previewDialogOpen
    /\ previewDialogOpen' = FALSE
    /\ UNCHANGED <<selectedTemplate, isDialogOpen, testEmailDialogOpen, smtpError,
                   testEmailFieldError, lastTestSubmit, sendMutVars, writeMutVars,
                   dialogOpenedBy, otherViews>>

\* The Send button of a table row.
ClickSendTest ==
    /\ mounted = "EmailTemplateList"
    /\ NoDialogOpen
    /\ \E t \in Templates : selectedTemplate' = t
    /\ testEmailDialogOpen' = TRUE
    /\ UNCHANGED <<isDialogOpen, previewDialogOpen, smtpError,
                   testEmailFieldError, lastTestSubmit, sendMutVars, writeMutVars,
                   dialogOpenedBy, otherViews>>

\* The test-email dialog is dismissed: onOpenChange = setTestEmailDialogOpen.
DismissTestDialog ==
    /\ mounted = "EmailTemplateList"
    /\ testEmailDialogOpen
    /\ testEmailDialogOpen' = FALSE
    /\ UNCHANGED <<selectedTemplate, isDialogOpen, previewDialogOpen, smtpError,
                   testEmailFieldError, lastTestSubmit, sendMutVars, writeMutVars,
                   dialogOpenedBy, otherViews>>

\* Cancel button of the test-email form.
CancelTestDialog ==
    /\ mounted = "EmailTemplateList"
    /\ testEmailDialogOpen
    /\ testEmailDialogOpen' = FALSE
    /\ smtpError' = Missing
    /\ UNCHANGED <<selectedTemplate, isDialogOpen, previewDialogOpen,
                   testEmailFieldError, lastTestSubmit, sendMutVars, writeMutVars,
                   dialogOpenedBy, otherViews>>

\* handleSubmit(handleSendTestEmail) for the typed address `to`.  A started
\* mutation runs mutationFn up to its first await: smtpError is cleared and
\* the SMTP select is issued.
TestEmailSubmitted(to) ==
    LET outcome == TestSubmitOutcome(to, selectedTemplate) IN
    /\ lastTestSubmit' = outcome
    /\ testEmailFieldError' = (outcome = "invalid")
    /\ IF outcome = "started"
       THEN /\ sendVars' = [to |-> to, template |-> selectedTemplate]
            /\ smtpError' = Missing
            /\ stSmtpConfig' = NoConfig
            /\ stCalls' = <<SmtpSelectCall>>
            /\ stToasts' = <<>>
            /\ sendPc' = "fetchingSmtp"
       ELSE UNCHANGED <<sendMutVars, smtpError>>

\* The test-email form is submitted (the submit button is disabled while
\* the mutation is pending).  A rejected address is never passed on, so the
\* handler does the same for every rejected address and one of them stands
\* for all.
SubmitTestEmail ==
    /\ mounted = "EmailTemplateList"
    /\ testEmailDialogOpen
    /\ sendPc = "idle"
    /\ \/ \E to \in AcceptedRecipients : TestEmailSubmitted(to)
       \/ /\ RejectedRecipients # {}
          /\ TestEmailSubmitted(CHOOSE to \in RejectedRecipients : TRUE)
    /\ UNCHANGED <<selectedTemplate, isDialogOpen, previewDialogOpen, testEmailDialogOpen,
                   writeMutVars, dialogOpenedBy, otherViews>>

\* onError of the send-test mutation.
SendTestFailed(message) ==
    /\ smtpError' = message
    /\ stToasts' = Append(stToasts, Toast("destructive", SendFailedToast))
    /\ sendPc' = "idle"
    /\ UNCHANGED <<testEmailDialogOpen, testEmailFieldError>>

\* The SMTP select resolves with { data, error }.
SmtpSelectReturns ==
    /\ mounted = "EmailTemplateList"
    /\ sendPc = "fetchingSmtp"
    /\ \E failed \in BOOLEAN, cfg \in SmtpConfigs :
         IF failed
         THEN /\ SendTestFailed(NoSmtpConfigError)
              /\ UNCHANGED <<stSmtpConfig, stCalls>>
         ELSE /\ stSmtpConfig' = cfg
              /\ IF BodyIsBlank(sendVars.template)
                 THEN /\ SendTestFailed(EmptyBodyError)
                      /\ UNCHANGED stCalls
                 ELSE /\ stCalls' = Append(stCalls,
                                           SendEmailCall(sendVars.to, sendVars.template, cfg))
                      /\ sendPc' = "sending"
                      /\ UNCHANGED <<smtpError, stToasts, testEmailDialogOpen,
                                     testEmailFieldError>>
    /\ UNCHANGED <<selectedTemplate, isDialogOpen, previewDialogOpen, lastTestSubmit,
                   sendVars, writeMutVars, dialogOpenedBy, otherViews>>

\* The SMTP select rejects.
SmtpSelectThrows ==
    /\ mounted = "EmailTemplateList"
    /\ sendPc = "fetchingSmtp"
    /\ \E m \in ErrorMessages : SendTestFailed(m)
    /\ UNCHANGED <<selectedTemplate, isDialogOpen, previewDialogOpen, lastTestSubmit,
                   sendVars, stSmtpConfig, stCalls, writeMutVars, dialogOpenedBy, otherViews>>

\* Variant of SendEmailReturns: a failed send is tried once more.
SendEmailReturnsWithRetry ==
    /\ mounted = "EmailTemplateList"
    /\ sendPc = "sending"
    /\ \E failed \in BOOLEAN, m \in ErrorMessages :
         IF failed
         THEN IF Len(stCalls) < 3
              THEN /\ stCalls' = Append(stCalls, stCalls[Len(stCalls)])
                   /\ UNCHANGED <<smtpError, stToasts, sendPc, testEmailDialogOpen,
                                  testEmailFieldError>>
              ELSE SendTestFailed(m) /\ UNCHANGED stCalls
         ELSE /\ stToasts' = Append(stToasts, Toast("default", SendSuccessToast))
              /\ testEmailDialogOpen' = FALSE
              /\ testEmailFieldError' = FALSE
              /\ sendPc' = "idle"
              /\ UNCHANGED <<smtpError, stCalls>>
    /\ UNCHANGED <<selectedTemplate, isDialogOpen, previewDialogOpen, lastTestSubmit,
                   sendVars, stSmtpConfig, writeMutVars, dialogOpenedBy, otherViews>>

\* send-email resolves with { error }: onSuccess closes the dialog and
\* resets the form, an error is thrown to onError.
SendEmailReturns ==
    /\ mounted = "EmailTemplateList"
    /\ sendPc = "sending"
    /\ \E failed \in BOOLEAN, m \in ErrorMessages :
         IF failed
         THEN SendTestFailed(m)
         ELSE /\ stToasts' = Append(stToasts, Toast("default", SendSuccessToast))
              /\ testEmailDialogOpen' = FALSE
              /\ testEmailFieldError' = FALSE
              /\ sendPc' = "idle"
              /\ UNCHANGED smtpError
    /\ UNCHANGED <<selectedTemplate, isDialogOpen, previewDialogOpen, lastTestSubmit,
                   sendVars, stSmtpConfig, stCalls, writeMutVars, dialogOpenedBy, otherViews>>

\* send-email rejects.
SendEmailThrows ==
    /\ mounted = "EmailTemplateList"
    /\ sendPc = "sending"
    /\ \E m \in ErrorMessages : SendTestFailed(m)
    /\ UNCHANGED <<selectedTemplate, isDialogOpen, previewDialogOpen, lastTestSubmit,
                   sendVars, stSmtpConfig, stCalls, writeMutVars, dialogOpenedBy, otherViews>>

(***************************************************************************)
(* FinancialManagement: payment statistics, export, collector statistics.  *)
(* The "paymentStats" query with what is derived from it and the           *)
(* "collectors" query with what is derived from it share no state, so a    *)
(* behaviour follows one of the two.                                       *)
(***************************************************************************)

\* Bound: longest payment_requests result explored.
MaxStatRows == 2

\* Bound: largest number of collectors explored.
MaxCollectors == 3

PaymentMethods == {"cash", "bank_transfer"}

\* The selected columns of payment_requests that feed the statistics.
StatRows == [amount : Amounts, status : Statuses, payment_method : PaymentMethods]

StatRowLists == UNION {[1..n -> StatRows] : n \in 0..MaxStatRows}

\* data of a query: undefined until the fetch has succeeded.  A fetch that
\* throws leaves it undefined.
Undefined == [defined |-> FALSE, rows |-> <<>>]

Fetched(rows) == [defined |-> TRUE, rows |-> rows]

\* paymentStats.reduce((sum, payment) => sum + (payment.amount || 0), 0)
RECURSIVE TotalAmount(_, _)
TotalAmount(rows, n) ==
    IF n = 0 THEN 0
    ELSE TotalAmount(rows, n - 1) + AmountOrZero(rows[n])

\* paymentStats.filter(p => p[field] === value).length
CountRows(rows, field, value) ==
    Cardinality({i \in DOMAIN rows : rows[i][field] = value})

\* The payments object is null while paymentStats is undefined.
NoPaymentStatistics ==
    [present |-> FALSE, totalPayments |-> 0, totalAmount |-> 0, pendingPayments |-> 0,
     approvedPayments |-> 0, paymentMethods |-> [cash |-> 0, bankTransfer |-> 0]]

\* Variant of PaymentStatistics: every payment that is not pending counts
\* as approved.
PaymentStatisticsApprovedUnlessPending(stats) ==
    IF ~stats.defined THEN NoPaymentStatistics
    ELSE [present |-> TRUE,
          totalPayments |-> Len(stats.rows),
          totalAmount |-> TotalAmount(stats.rows, Len(stats.rows)),
          pendingPayments |-> CountRows(stats.rows, "status", "pending"),
          approvedPayments |-> Len(stats.rows) - CountRows(stats.rows, "status", "pending"),
          paymentMethods |->
              [cash |-> CountRows(stats.rows, "payment_method", "cash"),
               bankTransfer |-> CountRows(stats.rows, "payment_method", "bank_transfer")]]

\* const payments = paymentStats ? {...} : null.  recentPayments (the five
\* latest rows) is a list for display and is not part of the numbers.
PaymentStatistics(stats) ==
    IF ~stats.defined THEN NoPaymentStatistics
    ELSE [present |-> TRUE,
          totalPayments |-> Len(stats.rows),
          totalAmount |-> TotalAmount(stats.rows, Len(stats.rows)),
          pendingPayments |-> CountRows(stats.rows, "status", "pending"),
          approvedPayments |-> CountRows(stats.rows, "status", "approved"),
          paymentMethods |->
              [cash |-> CountRows(stats.rows, "payment_method", "cash"),
               bankTransfer |-> CountRows(stats.rows, "payment_method", "bank_transfer")]]

ExportTypes == {"excel", "csv", "all"}

ExportToast(variant, title) == [variant |-> variant, title |-> title]

ExportSuccessful == ExportToast("default", "Export successful")

ExportFailed == ExportToast("destructive", "Export failed")

NoExport == [type |-> "none", loaded |-> FALSE, calls |-> <<>>, threw |-> {}, toasts |-> <<>>]

\* Variant of HandleExportOutcome: the PDF generator runs although the CSV
\* exporter threw.
HandleExportOutcomeContinuesAfterThrow(stats, type, csvThrows, pdfThrows) ==
    IF ~stats.defined
    THEN [type |-> type, loaded |-> FALSE, calls |-> <<>>, threw |-> {}, toasts |-> <<>>]
    ELSE LET callsCsv == type \in {"csv", "all"}
             csvThrew == callsCsv /\ csvThrows
             callsPdf == type \in {"excel", "all"}
             pdfThrew == callsPdf /\ pdfThrows
         IN [type |-> type,
             loaded |-> TRUE,
             calls |-> (IF callsCsv THEN <<"exportToCSV">> ELSE <<>>)
                          \o (IF callsPdf THEN <<"generatePDF">> ELSE <<>>),
             threw |-> (IF csvThrew THEN {"exportToCSV"} ELSE {})
                          \cup (IF pdfThrew THEN {"generatePDF"} ELSE {}),
             toasts |-> <<IF csvThrew \/ pdfThrew THEN ExportFailed ELSE ExportSuccessful>>]

\* The body of handleExport: the exporters called, which of them threw and
\* the notifications shown.  csvThrows / pdfThrows say what each exporter
\* would do if called; a throw leaves the try block at once.
HandleExportOutcome(stats, type, csvThrows, pdfThrows) ==
    IF ~stats.defined
    THEN [type |-> type, loaded |-> FALSE, calls |-> <<>>, threw |-> {}, toasts |-> <<>>]
    ELSE LET callsCsv == type \in {"csv", "all"}
             csvThrew == callsCsv /\ csvThrows
             callsPdf == ~csvThrew /\ type \in {"excel", "all"}
             pdfThrew == callsPdf /\ pdfThrows
         IN [type |-> type,
             loaded |-> TRUE,
             calls |-> (IF callsCsv THEN <<"exportToCSV">> ELSE <<>>)
                          \o (IF callsPdf THEN <<"generatePDF">> ELSE <<>>),
             threw |-> (IF csvThrew THEN {"exportToCSV"} ELSE {})
                          \cup (IF pdfThrew THEN {"generatePDF"} ELSE {}),
             toasts |-> <<IF csvThrew \/ pdfThrew THEN ExportFailed ELSE ExportSuccessful>>]

\* A member row of a collector: payment_amount is a number or missing.
Member(a) == [payment_amount |-> a]

\* The members relation of a collector: absent or a list of members.
MemberRels ==
    {[present |-> FALSE, rows |-> <<>>],
     [present |-> TRUE, rows |-> <<>>],
     [present |-> TRUE, rows |-> <<Member([hasAmount |-> TRUE, value |-> 10])>>],
     [present |-> TRUE, rows |-> <<Member([hasAmount |-> FALSE, value |-> 0]),
                                   Member([hasAmount |-> TRUE, value |-> 25])>>],
     [present |-> TRUE, rows |-> <<Member([hasAmount |-> TRUE, value |-> 10]),
                                   Member([hasAmount |-> TRUE, value |-> 25])>>]}

\* Rows of members_collectors; a collector without members is inactive.
CollectorRows == {[active |-> m.rows # <<>>, members |-> m] : m \in MemberRels}

CollectorLists == UNION {[1..n -> CollectorRows] : n \in 0..MaxCollectors}

\* member.payment_amount || 0
PaymentAmountOrZero(member) ==
    IF member.payment_amount.hasAmount /\ member.payment_amount.value # 0
    THEN member.payment_amount.value ELSE 0

\* (collector.members || []).reduce((memberSum, member) => memberSum + ..., 0)
RECURSIVE MemberSum(_, _)
MemberSum(rows, n) ==
    IF n = 0 THEN 0
    ELSE MemberSum(rows, n - 1) + PaymentAmountOrZero(rows[n])

MemberPayments(collector) ==
    LET rows == IF collector.members.present THEN collector.members.rows ELSE <<>>
    IN MemberSum(rows, Len(rows))

\* collectorsData.reduce((sum, collector) => sum + memberPayments, 0)
RECURSIVE TotalCollected(_, _)
TotalCollected(rows, n) ==
    IF n = 0 THEN 0
    ELSE TotalCollected(rows, n - 1) + MemberPayments(rows[n])

\* Variant of ToFixed2: the digits after the second decimal are cut off.
ToFixed2Truncating(num, den) == (100 * num) \div den

\* (num / den).toFixed(2) for num >= 0, den > 0, as the number of
\* hundredths the decimal string denotes: the nearest one, the larger of
\* two equally near ones.
ToFixed2(num, den) == (200 * num + den) \div (2 * den)

\* collectorsData.length ? (total / collectorsData.length).toFixed(2) : 0 --
\* a two-decimal string, or the number 0 for an empty list.
AverageCollection(rows) ==
    IF Len(rows) # 0
    THEN [isString |-> TRUE,
          hundredths |-> ToFixed2(TotalCollected(rows, Len(rows)), Len(rows))]
    ELSE [isString |-> FALSE, hundredths |-> 0]

\* collectorStats is null while collectorsData is undefined.
NoCollectorStatistics ==
    [present |-> FALSE, totalCollectors |-> 0, activeCollectors |-> 0,
     totalCollected |-> 0, averageCollection |-> [isString |-> FALSE, hundredths |-> 0]]

\* const collectorStats = collectorsData ? {...} : null
CollectorStatistics(data) ==
    IF ~data.defined THEN NoCollectorStatistics
    ELSE [present |-> TRUE,
          totalCollectors |-> Len(data.rows),
          activeCollectors |-> CountRows(data.rows, "active", TRUE),
          totalCollected |-> TotalCollected(data.rows, Len(data.rows)),
          averageCollection |-> AverageCollection(data.rows)]

\* Both queries are in flight after mount.
FinanceStart ==
    /\ paymentStats = Undefined
    /\ paymentsSummary = PaymentStatistics(Undefined)
    /\ lastExport = NoExport
    /\ collectorsData = Undefined
    /\ collectorStats = CollectorStatistics(Undefined)

\* The "paymentStats" query resolves; the component renders with the data.
PaymentStatsFetched ==
    /\ mounted = "FinancialManagement.payments"
    /\ ~paymentStats.defined
    /\ \E rows \in StatRowLists : paymentStats' = Fetched(rows)
    /\ paymentsSummary' = PaymentStatistics(paymentStats')
    /\ UNCHANGED <<lastExport, collectorsData, collectorStats, queriesVars, metricsVars,
                   firstViews, mounted>>

\* One of the export buttons is clicked: handleExport(type) runs to its end.
HandleExport ==
    /\ mounted = "FinancialManagement.payments"
    /\ \E type \in ExportTypes, csvThrows \in BOOLEAN, pdfThrows \in BOOLEAN :
          lastExport' = HandleExportOutcome(paymentStats, type, csvThrows, pdfThrows)
    /\ UNCHANGED <<paymentStats, paymentsSummary, collectorsData, collectorStats, queriesVars,
                   metricsVars, firstViews, mounted>>

\* The "collectors" query resolves; the component renders with the data.
CollectorsDataFetched ==
    /\ mounted = "FinancialManagement.collectors"
    /\ ~collectorsData.defined
    /\ \E rows \in CollectorLists : collectorsData' = Fetched(rows)
    /\ collectorStats' = CollectorStatistics(collectorsData')
    /\ UNCHANGED <<paymentStats, paymentsSummary, lastExport, queriesVars, metricsVars,
                   firstViews, mounted>>

(***************************************************************************)
(* useFinancialQueries: the "payments" and the "collectors" query           *)
(***************************************************************************)

\* What a fetch can deliver (the rows themselves play no part in the hook).
QueryResults == {"rows1", "rows2"}

NoData == "undefined"

\* A query right after mount: no data, first fetch in flight.
QueryPending == [status |-> "pending", fetching |-> TRUE, data |-> NoData]

\* isLoading: first fetch in flight.
IsLoadingQuery(q) == q.status = "pending" /\ q.fetching

\* The first time a query settles is appended to settleOrder.
Settled(name) ==
    IF \E k \in DOMAIN settleOrder : settleOrder[k] = name
    THEN settleOrder
    ELSE Append(settleOrder, name)

QueriesStart ==
    /\ paymentsQuery = QueryPending
    /\ collectorsQuery = QueryPending
    /\ settleOrder = <<>>

\* The queryFn of ["payments"] returns data.
PaymentsFetchResolves ==
    /\ mounted = "useFinancialQueries"
    /\ paymentsQuery.fetching
    /\ \E d \in QueryResults :
          paymentsQuery' = [status |-> "success", fetching |-> FALSE, data |-> d]
    /\ settleOrder' = Settled("payments")
    /\ UNCHANGED <<collectorsQuery, financeVars, metricsVars, firstViews, mounted>>

\* Variant of PaymentsFetchRejects: the failure also throws away what the
\* collectors query holds.
PaymentsFetchRejectsResettingCollectors ==
    /\ mounted = "useFinancialQueries"
    /\ paymentsQuery.fetching
    /\ paymentsQuery' = [paymentsQuery EXCEPT !.status = "error", !.fetching = FALSE]
    /\ collectorsQuery' = QueryPending
    /\ settleOrder' = Settled("payments")
    /\ UNCHANGED <<financeVars, metricsVars, firstViews, mounted>>

\* The queryFn of ["payments"] throws the error of the select.
PaymentsFetchRejects ==
    /\ mounted = "useFinancialQueries"
    /\ paymentsQuery.fetching
    /\ paymentsQuery' = [paymentsQuery EXCEPT !.status = "error", !.fetching = FALSE]
    /\ settleOrder' = Settled("payments")
    /\ UNCHANGED <<collectorsQuery, financeVars, metricsVars, firstViews, mounted>>

\* The queryFn of ["collectors"] returns data.
CollectorsFetchResolves ==
    /\ mounted = "useFinancialQueries"
    /\ collectorsQuery.fetching
    /\ \E d \in QueryResults :
          collectorsQuery' = [status |-> "success", fetching |-> FALSE, data |-> d]
    /\ settleOrder' = Settled("collectors")
    /\ UNCHANGED <<paymentsQuery, financeVars, metricsVars, firstViews, mounted>>

\* The queryFn of ["collectors"] throws the error of the select; data of an
\* earlier successful fetch is kept.
CollectorsFetchRejects ==
    /\ mounted = "useFinancialQueries"
    /\ collectorsQuery.fetching
    /\ collectorsQuery' = [collectorsQuery EXCEPT !.status = "error", !.fetching = FALSE]
    /\ settleOrder' = Settled("collectors")
    /\ UNCHANGED <<paymentsQuery, financeVars, metricsVars, firstViews, mounted>>

\* The caller invokes the returned refetchCollectors.
RefetchCollectors ==
    /\ mounted = "useFinancialQueries"
    /\ ~collectorsQuery.fetching
    /\ collectorsQuery' = [collectorsQuery EXCEPT !.fetching = TRUE]
    /\ UNCHANGED <<paymentsQuery, settleOrder, financeVars, metricsVars, firstViews,
                   mounted>>

(***************************************************************************)
(* PerformanceMetrics: the four chart series                               *)
(***************************************************************************)

\* Bound: largest number of rows check_system_performance returns.
MaxMetricRows == 3

\* The four charted metric names and one that is not charted.
MetricNames == {"response_time", "query_time", "api_performance", "cache_hits",
                "disk_usage"}

MetricValues == {1, 2}

\* Rows carry their position as timestamp.
MetricRow(i, name, value) ==
    [metric_name |-> name, timestamp |-> i, current_value |-> value]

MetricRowLists ==
    UNION {{[i \in 1..n |-> MetricRow(i, l[i][1], l[i][2])] :
               l \in [1..n -> MetricNames \X MetricValues]} : n \in 0..MaxMetricRows}

SeriesNames == {"response_times", "query_times", "api_performance", "cache_hits"}

\* Variant of MetricNameOf: query_times is filled from response_time rows.
MetricNameOfQueryAsResponse(series) ==
    CASE series = "response_times" -> "response_time"
      [] series = "query_times" -> "response_time"
      [] series = "api_performance" -> "api_performance"
      [] series = "cache_hits" -> "cache_hits"

\* The metric_name each series is filtered by.
MetricNameOf(series) ==
    CASE series = "response_times" -> "response_time"
      [] series = "query_times" -> "query_time"
      [] series = "api_performance" -> "api_performance"
      [] series = "cache_hits" -> "cache_hits"

\* rpcData.filter(d => d.metric_name === name)
\*        .map(d => ({ timestamp: d.timestamp, value: d.current_value }))
RECURSIVE SeriesPoints(_, _)
SeriesPoints(rows, name) ==
    IF rows = <<>> THEN <<>>
    ELSE IF Head(rows).metric_name = name
         THEN <<[timestamp |-> Head(rows).timestamp, value |-> Head(rows).current_value]>>
                 \o SeriesPoints(Tail(rows), name)
         ELSE SeriesPoints(Tail(rows), name)

NoMetrics == [defined |-> FALSE, series |-> [n \in SeriesNames |-> <<>>]]

MetricsStart ==
    /\ rpcData = [status |-> "pending", rows |-> <<>>]
    /\ metrics = NoMetrics

\* The rpc returns rows: the queryFn builds the four series.
MetricsRpcReturns ==
    /\ mounted = "PerformanceMetrics"
    /\ rpcData.status = "pending"
    /\ \E rows \in MetricRowLists : rpcData' = [status |-> "ok", rows |-> rows]
    /\ metrics' = [defined |-> TRUE,
                   series |-> [n \in SeriesNames |->
                                  SeriesPoints(rpcData'.rows, MetricNameOf(n))]]
    /\ UNCHANGED <<financeVars, queriesVars, firstViews, mounted>>

\* The rpc returns an error: the queryFn throws and metrics stays undefined.
MetricsRpcFails ==
    /\ mounted = "PerformanceMetrics"
    /\ rpcData.status = "pending"
    /\ rpcData' = [status |-> "error", rows |-> <<>>]
    /\ UNCHANGED <<metrics, financeVars, queriesVars, firstViews, mounted>>

(***************************************************************************)
(* PaymentHistoryCard: receipt downloads                                   *)
(***************************************************************************)

\* Bound: most downloadReceipt calls awaiting at the same time.
MaxRunningDownloads == 2

\* The ids of memberData.payment_requests, one table row each.
HistoryPaymentIds == {"p1", "p2"}

\* downloadingReceipt === null
NoReceipt == "null"

\* disabled={downloadingReceipt === payment.id}; the spinner is shown under
\* the same condition.
DownloadButtonDisabled(paymentId) == downloadingReceipt = paymentId

RunningDownloadsTotal ==
    runningDownloads["p1"] + runningDownloads["p2"]

ReceiptStart ==
    /\ downloadingReceipt = NoReceipt
    /\ runningDownloads = [id \in HistoryPaymentIds |-> 0]
    /\ lastReceiptToast = "none"

\* The download button of a row is clicked: downloadReceipt(payment.id) runs
\* up to its await.
ClickDownloadReceipt ==
    /\ mounted = "PaymentHistoryCard"
    /\ RunningDownloadsTotal < MaxRunningDownloads
    /\ \E id \in HistoryPaymentIds :
          /\ ~DownloadButtonDisabled(id)
          /\ downloadingReceipt' = id
          /\ runningDownloads' = [runningDownloads EXCEPT ![id] = @ + 1]
    /\ UNCHANGED <<lastReceiptToast, notifyVars, priorViews, mounted>>

\* The awaited delay of one call is over: the success notification, then
\* the finally block.  Nothing inside the try can throw, so the catch block
\* is never entered.
DownloadReceiptCompletes ==
    /\ mounted = "PaymentHistoryCard"
    /\ \E id \in HistoryPaymentIds :
          /\ runningDownloads[id] > 0
          /\ runningDownloads' = [runningDownloads EXCEPT ![id] = @ - 1]
    /\ lastReceiptToast' = "Receipt downloaded"
    /\ downloadingReceipt' = NoReceipt
    /\ UNCHANGED <<notifyVars, priorViews, mounted>>

(***************************************************************************)
(* utils/emailNotifications: sendPaymentNotification                       *)
(***************************************************************************)

\* The members relation of the payment: absent, without full name, without
\* email, or complete.
NotifyMembers ==
    {[present |-> FALSE, full_name |-> Missing, email |-> Missing],
     [present |-> TRUE, full_name |-> Missing, email |-> "ann@x.org"],
     [present |-> TRUE, full_name |-> "Ann", email |-> Missing],
     [present |-> TRUE, full_name |-> "Ann", email |-> "ann@x.org"],
     [present |-> TRUE, full_name |-> "Bob", email |-> "bob@x.org"]}

PaymentNumbers == {"PAY-1", "PAY-2"}

NotifyPayments == [members : NotifyMembers, payment_number : PaymentNumbers]

\* The two declared notification types and a value outside the union.
NotificationTypes == {"confirmation", "reminder", "receipt"}

\* dueDate: omitted, a date, or a string that is not a date.
DueDates == {Missing, "2025-01-31", "next week"}

\* new Date(s) is an Invalid Date.
IsInvalidDate(s) == s = "next week"

DueDateRequired == "Due date required for payment reminders"

InvalidNotificationType == "Invalid notification type"

\* format() of date-fns throws a RangeError for an Invalid Date.
InvalidTimeValue == "Invalid time value"

\* getPaymentConfirmationTemplate(payment)
GetPaymentConfirmationTemplate(payment) ==
    [subject |-> <<"Payment Confirmation - ", payment.payment_number>>,
     html |-> [heading |-> "Payment Confirmation",
               dear |-> payment.members.full_name,
               number |-> payment.payment_number]]

\* getPaymentReminderTemplate(payment, dueDate), for a dueDate that format()
\* accepts.
GetPaymentReminderTemplate(payment, dueDate) ==
    [subject |-> <<"Payment Reminder">>,
     html |-> [heading |-> "Payment Reminder",
               dear |-> payment.members.full_name,
               dueDate |-> dueDate]]

NoEmailTemplate == [subject |-> <<>>, html |-> [heading |-> "none"]]

\* Variant of MemberInfoMissing: only the email is required.
MemberInfoMissingEmailOnly(payment) ==
    \/ ~payment.members.present
    \/ payment.members.email = Missing

\* !payment.members?.full_name || !payment.members?.email
MemberInfoMissing(payment) ==
    \/ ~payment.members.present
    \/ payment.members.full_name = Missing
    \/ payment.members.email = Missing

\* Variant of ChooseTemplate: a reminder without due date falls back to the
\* confirmation template.
ChooseTemplateReminderFallsBack(payment, notificationType, dueDate) ==
    IF notificationType = "confirmation"
    THEN [raised |-> Missing, template |-> GetPaymentConfirmationTemplate(payment)]
    ELSE IF notificationType = "reminder"
    THEN (IF dueDate = Missing
          THEN [raised |-> Missing, template |-> GetPaymentConfirmationTemplate(payment)]
          ELSE IF IsInvalidDate(dueDate)
          THEN [raised |-> InvalidTimeValue, template |-> NoEmailTemplate]
          ELSE [raised |-> Missing,
                template |-> GetPaymentReminderTemplate(payment, dueDate)])
    ELSE [raised |-> InvalidNotificationType, template |-> NoEmailTemplate]

\* The switch on notificationType: the template, or the error raised.
ChooseTemplate(payment, notificationType, dueDate) ==
    IF notificationType = "confirmation"
    THEN [raised |-> Missing, template |-> GetPaymentConfirmationTemplate(payment)]
    ELSE IF notificationType = "reminder"
    THEN (IF dueDate = Missing
          THEN [raised |-> DueDateRequired, template |-> NoEmailTemplate]
          ELSE IF IsInvalidDate(dueDate)
          THEN [raised |-> InvalidTimeValue, template |-> NoEmailTemplate]
          ELSE [raised |-> Missing,
                template |-> GetPaymentReminderTemplate(payment, dueDate)])
    ELSE [raised |-> InvalidNotificationType, template |-> NoEmailTemplate]

NoNotifyArgs ==
    [payment |-> [members |-> [present |-> FALSE, full_name |-> Missing, email |-> Missing],
                  payment_number |-> "PAY-1"],
     notificationType |-> "none", dueDate |-> Missing]

NotifyStart ==
    /\ notifyPc = "idle"
    /\ notifyArgs = NoNotifyArgs
    /\ notifyEmails = <<>>
    /\ notifyOutcome = [kind |-> "none", error |-> Missing]

\* sendPaymentNotification(payment, notificationType, dueDate) up to its
\* await, or to its end when it returns or throws before.
NotificationRequested ==
    /\ mounted = "sendPaymentNotification"
    /\ notifyPc = "idle"
    /\ \E payment \in NotifyPayments, notificationType \in NotificationTypes,
          dueDate \in DueDates :
          /\ notifyArgs' = [payment |-> payment, notificationType |-> notificationType,
                            dueDate |-> dueDate]
          /\ IF MemberInfoMissing(payment)
             THEN /\ notifyEmails' = <<>>
                  /\ notifyOutcome' = [kind |-> "returned", error |-> Missing]
                  /\ notifyPc' = "idle"
             ELSE LET chosen == ChooseTemplate(payment, notificationType, dueDate) IN
                  IF chosen.raised # Missing
                  THEN /\ notifyEmails' = <<>>
                       /\ notifyOutcome' = [kind |-> "raised", error |-> chosen.raised]
                       /\ notifyPc' = "idle"
                  ELSE /\ notifyEmails' = <<[to |-> payment.members.email,
                                             subject |-> chosen.template.subject,
                                             html |-> chosen.template.html]>>
                       /\ notifyOutcome' = [kind |-> "pending", error |-> Missing]
                       /\ notifyPc' = "sending"
    /\ UNCHANGED <<receiptVars, priorViews, mounted>>

\* await sendEmail(...) resolves: the function returns.
SendEmailResolves ==
    /\ mounted = "sendPaymentNotification"
    /\ notifyPc = "sending"
    /\ notifyPc' = "idle"
    /\ notifyOutcome' = [kind |-> "returned", error |-> Missing]
    /\ UNCHANGED <<notifyArgs, notifyEmails, receiptVars, priorViews, mounted>>

\* await sendEmail(...) rejects: the error leaves the function.
SendEmailRejects ==
    /\ mounted = "sendPaymentNotification"
    /\ notifyPc = "sending"
    /\ notifyPc' = "idle"
    /\ notifyOutcome' = [kind |-> "raised", error |-> "send failed"]
    /\ UNCHANGED <<notifyArgs, notifyEmails, receiptVars, priorViews, mounted>>

(***************************************************************************)
(* Specification.  The views are independent components sharing no state:  *)
(* a behaviour follows one mounted view, whose props are drawn at mount.   *)
(***************************************************************************)

Views == {"PaymentsList", "ResetPasswordForm", "UserTable", "EmailTemplateList",
          "FinancialManagement.payments", "FinancialManagement.collectors",
          "useFinancialQueries", "PerformanceMetrics", "PaymentHistoryCard",
          "sendPaymentNotification"}

Init ==
    /\ mounted \in Views
    /\ IF mounted = "PaymentsList" THEN PaymentsStart
       ELSE /\ paymentsData = <<>> /\ paymentsByCollector = <<>> /\ rendered = FALSE
            /\ loadingPayments = TRUE /\ sortedCollectors = <<>>
            /\ openCollectors = <<>> /\ toggledOdd = {} /\ lastClick = NoClick
    /\ ResetStart
    /\ mounted # "ResetPasswordForm" => token = "tokA"
    /\ QuickFixStart
    /\ EmailStart
    /\ FinanceStart
    /\ QueriesStart
    /\ MetricsStart
    /\ ReceiptStart
    /\ NotifyStart

Next ==
    \/ Render
    \/ PaymentsLoaded
    \/ PaymentAdded
    \/ ToggleCollector
    \/ ClickApprove
    \/ ClickDelete
    \/ TypeNewPassword
    \/ TypeConfirmPassword
    \/ SubmitResetPassword
    \/ ValidateReturns
    \/ ValidateThrows
    \/ ResetReturns
    \/ ResetThrows
    \/ QuickFixClick
    \/ UpdateReturns
    \/ UpdateThrows
    \/ DeleteReturns
    \/ DeleteThrows
    \/ ClickNewTemplate
    \/ DismissTemplateDialog
    \/ CancelTemplateDialog
    \/ ClickEdit
    \/ SubmitTemplateForm
    \/ UpdateSettles
    \/ CreateSettles
    \/ ClickPreview
    \/ ClosePreview
    \/ ClickSendTest
    \/ DismissTestDialog
    \/ CancelTestDialog
    \/ SubmitTestEmail
    \/ SmtpSelectReturns
    \/ SmtpSelectThrows
    \/ SendEmailReturns
    \/ SendEmailThrows
    \/ PaymentStatsFetched
    \/ HandleExport
    \/ CollectorsDataFetched
    \/ PaymentsFetchResolves
    \/ PaymentsFetchRejects
    \/ CollectorsFetchResolves
    \/ CollectorsFetchRejects
    \/ RefetchCollectors
    \/ MetricsRpcReturns
    \/ MetricsRpcFails
    \/ ClickDownloadReceipt
    \/ DownloadReceiptCompletes
    \/ NotificationRequested
    \/ SendEmailResolves
    \/ SendEmailRejects

Spec == Init /\ [][Next]_vars

\* The reset-password form alone, with every remote call it awaits
\* eventually resolving or rejecting.
ResetInit == Init /\ mounted = "ResetPasswordForm"

ResetNext ==
    \/ TypeNewPassword
    \/ TypeConfirmPassword
    \/ SubmitResetPassword
    \/ ValidateReturns
    \/ ValidateThrows
    \/ ResetReturns
    \/ ResetThrows

RemoteCallSettles ==
    ValidateReturns \/ ValidateThrows \/ ResetReturns \/ ResetThrows

ResetLiveSpec == ResetInit /\ [][ResetNext]_vars /\ WF_vars(RemoteCallSettles)

(***************************************************************************)
(* Properties                                                              *)
(***************************************************************************)

\* The amount of a payment, a missing amount counting as 0.
AmountValue(payment) ==
    IF payment.amount.hasAmount THEN payment.amount.value ELSE 0

RECURSIVE SumOfAmounts(_)
SumOfAmounts(payments) ==
    IF payments = <<>> THEN 0
    ELSE AmountValue(Head(payments)) + SumOfAmounts(Tail(payments))

\* C1: after the grouping has run, every collector group's totalAmount is the
\* sum of the amounts of exactly the payments stored in that group's payments
\* list, a missing amount counting as 0.
C1_GroupTotalIsSumOfItsPayments ==
    rendered =>
        \A k \in DOMAIN paymentsByCollector :
            paymentsByCollector[k].totalAmount
                = SumOfAmounts(paymentsByCollector[k].payments)

\* C1 witness: a rendered group holding two payments, one of them without an
\* amount and not approved, whose total is the other payment's amount.
C1_Witness ==
    /\ rendered
    /\ \E k \in DOMAIN paymentsByCollector :
         LET g == paymentsByCollector[k] IN
         /\ Len(g.payments) = 2
         /\ ~g.payments[1].amount.hasAmount
         /\ g.payments[2].status = "pending"
         /\ g.totalAmount = 25

\* Number of places (group, position) at which payment i of the input list is
\* stored in the grouping result.
Occurrences(i) ==
    Cardinality({kj \in UNION {{<<k, j>> : j \in DOMAIN paymentsByCollector[k].payments} :
                                  k \in DOMAIN paymentsByCollector} :
                    paymentsByCollector[kj[1]].payments[kj[2]] = paymentsData[i]})

\* The payment carries a collector relation with both an id and a name.
HasCollectorIdAndName(payment) ==
    /\ payment.members_collectors.present
    /\ payment.members_collectors.id # Missing
    /\ payment.members_collectors.name # Missing

\* C2 as stated: every payment of the input list appears in exactly one
\* collector group.
C2_EveryPaymentInExactlyOneGroup ==
    rendered => \A i \in DOMAIN paymentsData : Occurrences(i) = 1

\* C2 amended: every payment whose collector relation has an id and a name
\* appears in exactly one collector group, and a payment without them appears
\* in none.
C2_PaymentWithCollectorInExactlyOneGroup ==
    rendered =>
        \A i \in DOMAIN paymentsData :
            Occurrences(i) = IF HasCollectorIdAndName(paymentsData[i]) THEN 1 ELSE 0

\* C2 witness: a rendered list with a grouped payment and a payment that has
\* a collector id but no name.
C2_Witness ==
    /\ rendered
    /\ Len(paymentsData) = 2
    /\ HasCollectorIdAndName(paymentsData[1])
    /\ paymentsData[2].members_collectors.id # Missing
    /\ paymentsData[2].members_collectors.name = Missing
    /\ Occurrences(1) = 1

\* A step of the reset form taken while nothing is awaited and that leaves
\* both inputs alone: a submit.
ResetSubmitStep ==
    /\ mounted = "ResetPasswordForm"
    /\ ~isLoading
    /\ newPassword' = newPassword
    /\ confirmPassword' = confirmPassword

\* C3: an RPC is issued by handleResetPassword only if the new password has
\* at least 8 characters and equals the confirmation; a submit failing either
\* check issues no RPC and ends the handler, and a submit failing both
\* reports the length error.
C3_ChecksGuardTheRpcs ==
    [][/\ (rpCalls' # rpCalls /\ rpCalls' # <<>>)
            => (Len(newPassword) >= 8 /\ newPassword = confirmPassword)
       /\ (ResetSubmitStep /\ (Len(newPassword) < 8 \/ newPassword # confirmPassword))
            => (rpCalls' = <<>> /\ rpPc' = "done" /\ Len(rpToasts') = 1)
       /\ (ResetSubmitStep /\ Len(newPassword) < 8 /\ newPassword # confirmPassword)
            => rpToasts' = <<Toast("destructive", LengthError)>>]_vars

\* C3 witness: a submit with a short password that also differs from the
\* confirmation has ended with the length error and no RPC.
C3_Witness ==
    /\ rpPc = "done"
    /\ Len(newPassword) < 8
    /\ newPassword # confirmPassword
    /\ confirmPassword # <<>>
    /\ rpCalls = <<>>
    /\ rpToasts = <<Toast("destructive", LengthError)>>

\* C4: handle_password_reset_with_token is issued only as the second call,
\* after validate_reset_token for the same token returned without error and
\* with a truthy result; when the validation returns an error or a falsy
\* result the only notification is 'Invalid or expired reset token', the
\* reset RPC is not issued and nothing navigates.
C4_ResetOnlyAfterValidToken ==
    /\ \A k \in DOMAIN rpCalls :
         rpCalls[k].fn = "handle_password_reset_with_token" =>
            /\ k = 2
            /\ rpCalls[1].fn = "validate_reset_token"
            /\ rpCalls[1].token_value = rpCalls[2].token_value
            /\ Len(rpResults) >= 1
            /\ ~rpResults[1].threw /\ ~rpResults[1].error /\ rpResults[1].data
    /\ (/\ Len(rpResults) >= 1
        /\ ~rpResults[1].threw
        /\ (rpResults[1].error \/ ~rpResults[1].data))
         => /\ rpToasts = <<Toast("destructive", InvalidTokenError)>>
            /\ Len(rpCalls) = 1
            /\ rpCalls[1].fn = "validate_reset_token"
            /\ rpPc = "done"
            /\ ~rpNavigated

\* C4 witness: the validation returned no error but a falsy result.
C4_Witness ==
    /\ rpPc = "done"
    /\ Len(rpResults) = 1
    /\ ~rpResults[1].threw /\ ~rpResults[1].error /\ ~rpResults[1].data

\* The awaited call resolved and reported no error.
ReturnedWithoutError(result) == ~result.threw /\ ~result.error

\* C5: a finished invocation of handleResetPassword has shown exactly one
\* notification: the success notification, with navigation, when both RPCs
\* returned without error, and otherwise one destructive notification and no
\* navigation; before it finishes nothing is shown.
C5_ExactlyOneResetNotification ==
    /\ rpPc \in {"validating", "resetting"} => (rpToasts = <<>> /\ ~rpNavigated)
    /\ rpPc = "done" =>
         /\ Len(rpToasts) = 1
         /\ IF /\ Len(rpResults) = 2
               /\ ReturnedWithoutError(rpResults[1])
               /\ ReturnedWithoutError(rpResults[2])
            THEN rpToasts[1] = Toast("default", ResetSuccess) /\ rpNavigated
            ELSE rpToasts[1].variant = "destructive" /\ ~rpNavigated

\* C5 witness: the reset RPC returned an error after a successful validation.
C5_Witness ==
    /\ rpPc = "done"
    /\ Len(rpResults) = 2
    /\ ~rpResults[2].threw /\ rpResults[2].error
    /\ Len(rpToasts) = 1

\* C6: a finished invocation of handleQuickFix has shown exactly one
\* notification: the success notification when both the members update and
\* the failed_login_attempts delete returned without error, otherwise one
\* destructive notification; no error escapes the handler.
C6_ExactlyOneQuickFixNotification ==
    \A i \in QuickFixClicks :
        /\ qfPc[i] \in {"idle", "updating", "deleting"} => qfToasts[i] = <<>>
        /\ ~qfEscaped[i]
        /\ qfPc[i] = "done" =>
             /\ Len(qfToasts[i]) = 1
             /\ IF /\ Len(qfResults[i]) = 2
                   /\ ReturnedWithoutError(qfResults[i][1])
                   /\ ReturnedWithoutError(qfResults[i][2])
                THEN qfToasts[i][1] = Toast("default", QuickFixSuccess(qfMember[i]))
                ELSE qfToasts[i][1].variant = "destructive"

\* C6 witness: an invocation whose delete was rejected has finished.
C6_Witness ==
    \E i \in QuickFixClicks :
        /\ qfPc[i] = "done"
        /\ Len(qfResults[i]) = 2
        /\ qfResults[i][2].threw

\* C7: the failed_login_attempts delete is issued only as the second call,
\* after the members update for the same member number returned without
\* error; a failed update is followed by no delete, and a failed delete by no
\* further write to members, the handler ending with an error notification.
C7_DeleteOnlyAfterUpdate ==
    \A i \in QuickFixClicks :
        /\ \A k \in DOMAIN qfCalls[i] :
             qfCalls[i][k].fn = "delete_failed_login_attempts" =>
                /\ k = 2
                /\ qfCalls[i][1].fn = "update_members"
                /\ qfCalls[i][1].member_number = qfCalls[i][2].member_number
                /\ qfCalls[i][2].member_number = qfMember[i]
                /\ Len(qfResults[i]) >= 1
                /\ ReturnedWithoutError(qfResults[i][1])
        /\ (Len(qfResults[i]) >= 1 /\ ~ReturnedWithoutError(qfResults[i][1]))
             => (Len(qfCalls[i]) = 1 /\ qfPc[i] = "done")
        /\ (Len(qfResults[i]) = 2 /\ ~ReturnedWithoutError(qfResults[i][2]))
             => /\ Len(qfCalls[i]) = 2
                /\ qfCalls[i][1].fn = "update_members"
                /\ qfCalls[i][2].fn = "delete_failed_login_attempts"
                /\ qfPc[i] = "done"
                /\ qfToasts[i][Len(qfToasts[i])].variant = "destructive"

\* C7 witness: the update succeeded, the delete returned an error and the
\* invocation has finished.
C7_Witness ==
    \E i \in QuickFixClicks :
        /\ qfPc[i] = "done"
        /\ Len(qfResults[i]) = 2
        /\ ReturnedWithoutError(qfResults[i][1])
        /\ ~qfResults[i][2].threw /\ qfResults[i][2].error

\* Number of calls of remote function fn in a call log.
CountCalls(calls, fn) == Cardinality({k \in DOMAIN calls : calls[k].fn = fn})

\* The remote functions a log may contain, each at most once.
AtMostOnceEach(calls, fns) ==
    /\ \A k \in DOMAIN calls : calls[k].fn \in fns
    /\ \A fn \in fns : CountCalls(calls, fn) <= 1

\* C8: no retry: within one invocation of handleResetPassword, of
\* handleQuickFix or of the send-test-email mutation each remote call is
\* issued at most once, whatever the calls returned.
C8_NoRemoteCallRepeated ==
    /\ AtMostOnceEach(rpCalls, {"validate_reset_token", "handle_password_reset_with_token"})
    /\ \A i \in QuickFixClicks :
         AtMostOnceEach(qfCalls[i], {"update_members", "delete_failed_login_attempts"})
    /\ AtMostOnceEach(stCalls, {"select_smtp_configurations", "send-email"})

\* C8 witness: a send-test mutation whose send-email call failed has ended.
C8_Witness ==
    /\ sendPc = "idle"
    /\ Len(stCalls) = 2
    /\ stCalls[2].fn = "send-email"
    /\ Len(stToasts) = 1
    /\ stToasts[1].variant = "destructive"

\* The body has a character that is not whitespace.
HasVisibleText(body) == \E k \in DOMAIN body : body[k] \notin Whitespace

\* C9: send-email is invoked only after the active SMTP configuration was
\* fetched without error and for a template whose body is not blank; its
\* recipient is the submitted address, its subject and HTML are the subject
\* and body of the template the mutation was started with, and host, port,
\* username, password and from come from the fetched record (password from
\* secret_key, from from from_address).
C9_SendEmailPayload ==
    \A k \in DOMAIN stCalls :
        stCalls[k].fn = "send-email" =>
            /\ k = 2
            /\ stCalls[1].fn = "select_smtp_configurations"
            /\ stSmtpConfig \in SmtpConfigs
            /\ HasVisibleText(sendVars.template.body)
            /\ stCalls[k].to = sendVars.to
            /\ stCalls[k].subject = sendVars.template.subject
            /\ stCalls[k].html = sendVars.template.body
            /\ stCalls[k].smtp.host = stSmtpConfig.host
            /\ stCalls[k].smtp.port = stSmtpConfig.port
            /\ stCalls[k].smtp.username = stSmtpConfig.username
            /\ stCalls[k].smtp.password = stSmtpConfig.secret_key
            /\ stCalls[k].smtp.from = stSmtpConfig.from_address

\* C9 witness: send-email has been invoked and is awaited.
C9_Witness ==
    /\ sendPc = "sending"
    /\ Len(stCalls) = 2
    /\ stCalls[2].fn = "send-email"

\* C10: the send-test mutation starts only with a recipient the validator
\* accepts and the currently selected template; a submit whose recipient is
\* rejected, and any step taken while no template is selected and no
\* mutation runs, issues no SMTP query and no send-email call.
C10_MutationNeedsValidRecipientAndTemplate ==
    [][/\ (sendPc = "idle" /\ sendPc' # "idle")
            => /\ IsEmail(sendVars'.to)
               /\ selectedTemplate # NoTemplate
               /\ sendVars'.template = selectedTemplate
       /\ (sendPc = "idle" /\ selectedTemplate = NoTemplate)
            => (sendPc' = "idle" /\ stCalls' = stCalls)
       /\ (lastTestSubmit' # lastTestSubmit /\ lastTestSubmit' \in {"invalid", "noTemplate"})
            => (sendPc' = "idle" /\ stCalls' = stCalls)]_vars

\* C10 witness: the open test-email form was submitted with an accepted
\* recipient while selectedTemplate was null.
C10_Witness ==
    /\ testEmailDialogOpen
    /\ selectedTemplate = NoTemplate
    /\ lastTestSubmit = "noTemplate"

\* Number of payments of a list that have the given status.
CountStatus(payments, status) ==
    Cardinality({j \in DOMAIN payments : payments[j].status = status})

\* C11: in every collector group approvedCount is the number of the group's
\* payments with status 'approved' and pendingCount the number with status
\* 'pending', so the two together never exceed the size of the group.
C11_GroupCountsMatchStatuses ==
    rendered =>
        \A k \in DOMAIN paymentsByCollector :
            LET g == paymentsByCollector[k] IN
            /\ g.approvedCount = CountStatus(g.payments, "approved")
            /\ g.pendingCount = CountStatus(g.payments, "pending")
            /\ g.approvedCount + g.pendingCount <= Len(g.payments)

\* C11 witness: a rendered group with an approved and a rejected payment.
C11_Witness ==
    /\ rendered
    /\ \E k \in DOMAIN paymentsByCollector :
         LET g == paymentsByCollector[k] IN
         /\ Len(g.payments) = 2
         /\ g.payments[1].status = "approved"
         /\ g.payments[2].status = "rejected"
         /\ g.approvedCount = 1
         /\ g.pendingCount = 0

\* The payments of a list that carry a collector id and name, in order.
RECURSIVE WithCollectorInfo(_)
WithCollectorInfo(payments) ==
    IF payments = <<>> THEN <<>>
    ELSE IF HasCollectorIdAndName(Head(payments))
         THEN <<Head(payments)>> \o WithCollectorInfo(Tail(payments))
         ELSE WithCollectorInfo(Tail(payments))

\* Sum of one numeric field over all groups.
RECURSIVE SumGroupField(_, _)
SumGroupField(groups, field) ==
    IF groups = <<>> THEN 0
    ELSE Head(groups)[field] + SumGroupField(Tail(groups), field)

\* C12: a payment whose collector relation is absent or lacks an id or a
\* name is in no group, adds to no total and no count, and the groups are
\* exactly those obtained from the other payments alone.
C12_SkippedPaymentsLeaveGroupsUnchanged ==
    rendered =>
        LET kept == WithCollectorInfo(paymentsData) IN
        /\ \A i \in DOMAIN paymentsData :
              ~HasCollectorIdAndName(paymentsData[i]) => Occurrences(i) = 0
        /\ paymentsByCollector = GroupPayments(kept, Len(kept))
        /\ SumGroupField(paymentsByCollector, "totalAmount") = SumOfAmounts(kept)
        /\ SumGroupField(paymentsByCollector, "approvedCount") = CountStatus(kept, "approved")
        /\ SumGroupField(paymentsByCollector, "pendingCount") = CountStatus(kept, "pending")

\* C12 witness: an approved payment with an amount but no collector relation
\* was grouped together with a payment that has a collector.
C12_Witness ==
    /\ rendered
    /\ Len(paymentsData) = 2
    /\ ~paymentsData[1].members_collectors.present
    /\ paymentsData[1].amount.hasAmount
    /\ paymentsData[1].status = "approved"
    /\ HasCollectorIdAndName(paymentsData[2])
    /\ Len(paymentsByCollector) = 1
    /\ Len(paymentsByCollector[1].payments) = 1

\* C16: handleApprove is only ever called for a payment whose status in the
\* current data is 'pending', and the row of a payment with any other status
\* offers the delete button alone.
C16_ApproveOnlyForPending ==
    /\ lastClick.handler = "handleApprove"
          => \E i \in DOMAIN paymentsData :
                /\ paymentsData[i].id = lastClick.paymentId
                /\ paymentsData[i].status = "pending"
    /\ \A k \in DOMAIN sortedCollectors :
          \A j \in DOMAIN sortedCollectors[k].payments :
             LET payment == sortedCollectors[k].payments[j] IN
             /\ "approve" \in RowActions(k, j) => payment.status = "pending"
             /\ (RowActions(k, j) # {} /\ payment.status # "pending")
                   => RowActions(k, j) = {"delete"}

\* C16 witness: approve was clicked on a pending payment while the row of a
\* payment that is not pending is on screen too.
C16_Witness ==
    /\ lastClick.handler = "handleApprove"
    /\ \E k \in DOMAIN sortedCollectors :
          \E j \in DOMAIN sortedCollectors[k].payments :
             /\ sortedCollectors[k].payments[j].status = "rejected"
             /\ RowActions(k, j) = {"delete"}

\* C17: there is exactly one group per distinct collector id among the
\* payments that have a collector id and name, and the rendered sequence
\* holds these groups in ascending order of collector name.
C17_OneGroupPerCollectorSortedByName ==
    rendered =>
        /\ {paymentsByCollector[k].id : k \in DOMAIN paymentsByCollector}
              = {paymentsData[i].members_collectors.id :
                    i \in {n \in DOMAIN paymentsData :
                              HasCollectorIdAndName(paymentsData[n])}}
        /\ \A k, l \in DOMAIN paymentsByCollector :
              paymentsByCollector[k].id = paymentsByCollector[l].id => k = l
        /\ Len(sortedCollectors) = Len(paymentsByCollector)
        /\ {sortedCollectors[k] : k \in DOMAIN sortedCollectors}
              = {paymentsByCollector[k] : k \in DOMAIN paymentsByCollector}
        /\ \A k \in 1..(Len(sortedCollectors) - 1) :
              NameRank(sortedCollectors[k].name) <= NameRank(sortedCollectors[k + 1].name)

\* C17 witness: two collectors whose first-seen order is not their name
\* order.
C17_Witness ==
    /\ rendered
    /\ Len(paymentsByCollector) = 2
    /\ paymentsByCollector[1].name = "Bob"
    /\ sortedCollectors[1].name = "Ann"
    /\ sortedCollectors[2].name = "Bob"

\* C13: the payment statistics computed from a fetched list have
\* totalPayments equal to its length, totalAmount equal to the sum of its
\* amounts (a missing amount counting as 0) and pendingPayments /
\* approvedPayments equal to the numbers of rows with these statuses, which
\* together never exceed totalPayments.
C13_PaymentStatisticsMatchList ==
    /\ paymentsSummary.present <=> paymentStats.defined
    /\ paymentsSummary.present =>
          /\ paymentsSummary.totalPayments = Len(paymentStats.rows)
          /\ paymentsSummary.totalAmount = SumOfAmounts(paymentStats.rows)
          /\ paymentsSummary.pendingPayments = CountStatus(paymentStats.rows, "pending")
          /\ paymentsSummary.approvedPayments = CountStatus(paymentStats.rows, "approved")
          /\ paymentsSummary.pendingPayments + paymentsSummary.approvedPayments
                <= paymentsSummary.totalPayments

\* C13 witness: statistics of a pending payment without amount and a
\* rejected payment of 25.
C13_Witness ==
    /\ paymentsSummary.present
    /\ Len(paymentStats.rows) = 2
    /\ ~paymentStats.rows[1].amount.hasAmount
    /\ paymentStats.rows[1].status = "pending"
    /\ paymentStats.rows[2].status = "rejected"
    /\ paymentsSummary.totalAmount = 25
    /\ paymentsSummary.pendingPayments = 1
    /\ paymentsSummary.approvedPayments = 0

\* Sum of the payment amounts of a list of members, a missing one as 0.
RECURSIVE SumOfMemberAmounts(_)
SumOfMemberAmounts(members) ==
    IF members = <<>> THEN 0
    ELSE (IF Head(members).payment_amount.hasAmount
          THEN Head(members).payment_amount.value ELSE 0)
         + SumOfMemberAmounts(Tail(members))

\* Sum over the collectors of the amounts of their members, a missing
\* members list as empty.
RECURSIVE SumOverCollectors(_)
SumOverCollectors(collectors) ==
    IF collectors = <<>> THEN 0
    ELSE (IF Head(collectors).members.present
          THEN SumOfMemberAmounts(Head(collectors).members.rows) ELSE 0)
         + SumOverCollectors(Tail(collectors))

\* totalCollected is the sum over all collectors of their members' amounts.
TotalCollectedIsSum ==
    collectorStats.present =>
        /\ collectorStats.totalCollectors = Len(collectorsData.rows)
        /\ collectorStats.totalCollected = SumOverCollectors(collectorsData.rows)

\* With no collector the average is the number 0.
AverageOfNoCollectors ==
    (collectorStats.present /\ Len(collectorsData.rows) = 0)
        => collectorStats.averageCollection = [isString |-> FALSE, hundredths |-> 0]

\* C14 as stated: totalCollected is the sum of the members' amounts, and
\* averageCollection is totalCollected divided by the number of collectors,
\* or 0 for an empty list.
C14_AverageIsExactQuotient ==
    /\ TotalCollectedIsSum
    /\ AverageOfNoCollectors
    /\ (collectorStats.present /\ Len(collectorsData.rows) >= 1)
          => collectorStats.averageCollection.hundredths * Len(collectorsData.rows)
                = 100 * collectorStats.totalCollected

\* C14 amended: totalCollected is the sum of the members' amounts, and
\* averageCollection is the two-decimal string nearest to totalCollected
\* divided by the number of collectors, or the number 0 for an empty list.
C14_AverageIsQuotientToTwoDecimals ==
    /\ TotalCollectedIsSum
    /\ AverageOfNoCollectors
    /\ (collectorStats.present /\ Len(collectorsData.rows) >= 1)
          => LET n == Len(collectorsData.rows)
                 d == collectorStats.averageCollection.hundredths * n
                         - 100 * collectorStats.totalCollected
             IN /\ collectorStats.averageCollection.isString
                /\ 2 * d <= n
                /\ -2 * d <= n

\* C14 witness: three collectors, one of them without a members list, with
\* 20 collected in all: the average is "6.67".
C14_Witness ==
    /\ collectorStats.present
    /\ Len(collectorsData.rows) = 3
    /\ \E k \in 1..3 : ~collectorsData.rows[k].members.present
    /\ collectorStats.totalCollected = 20
    /\ collectorStats.averageCollection = [isString |-> TRUE, hundredths |-> 667]

\* A fetch in flight can both resolve and reject, whatever the other query
\* is doing.
NeitherFetchBlocked ==
    mounted = "useFinancialQueries" =>
        /\ paymentsQuery.fetching
              => (ENABLED PaymentsFetchResolves /\ ENABLED PaymentsFetchRejects)
        /\ collectorsQuery.fetching
              => (ENABLED CollectorsFetchResolves /\ ENABLED CollectorsFetchRejects)

\* C15: the payments fetch and the collectors fetch are independent: a fetch
\* in flight can settle either way in every state of the other, and a step
\* that changes one query leaves the other as it was.
C15_FetchesAreIndependent ==
    /\ []NeitherFetchBlocked
    /\ [][/\ paymentsQuery' # paymentsQuery => collectorsQuery' = collectorsQuery
          /\ collectorsQuery' # collectorsQuery => paymentsQuery' = paymentsQuery]_vars

\* C15 witness: the collectors fetch settled first, with data, and the
\* payments fetch failed afterwards.
C15_Witness ==
    /\ settleOrder = <<"collectors", "payments">>
    /\ paymentsQuery.status = "error"
    /\ collectorsQuery.status = "success"
    /\ collectorsQuery.data = "rows1"

\* What every handleExport does: nothing at all while the statistics are
\* not loaded; otherwise 'csv' calls the CSV exporter only, 'excel' the PDF
\* generator only, and one notification is shown, the success one exactly
\* when no exporter threw.
ExportBasics ==
    lastExport.type # "none" =>
        IF ~lastExport.loaded
        THEN lastExport.calls = <<>> /\ lastExport.toasts = <<>>
        ELSE /\ lastExport.type = "csv" => lastExport.calls = <<"exportToCSV">>
             /\ lastExport.type = "excel" => lastExport.calls = <<"generatePDF">>
             /\ Len(lastExport.toasts) = 1
             /\ lastExport.toasts[1] =
                   IF lastExport.threw = {} THEN ExportSuccessful ELSE ExportFailed

\* C18 as stated: in addition, 'all' calls the CSV exporter and then the PDF
\* generator.
C18_AllCallsBothExporters ==
    /\ ExportBasics
    /\ (lastExport.type = "all" /\ lastExport.loaded)
          => lastExport.calls = <<"exportToCSV", "generatePDF">>

\* C18 amended: in addition, 'all' calls the CSV exporter and then, unless
\* the CSV exporter threw, the PDF generator.
C18_AllStopsAtFirstThrow ==
    /\ ExportBasics
    /\ (lastExport.type = "all" /\ lastExport.loaded)
          => lastExport.calls = IF "exportToCSV" \in lastExport.threw
                                THEN <<"exportToCSV">>
                                ELSE <<"exportToCSV", "generatePDF">>

\* C18 witness: an export of 'all' with loaded statistics in which the CSV
\* exporter threw.
C18_Witness ==
    /\ lastExport.type = "all"
    /\ lastExport.loaded
    /\ lastExport.threw = {"exportToCSV"}
    /\ lastExport.toasts = <<ExportFailed>>

\* The metric name charted by each series.
ChartedName ==
    [response_times |-> "response_time", query_times |-> "query_time",
     api_performance |-> "api_performance", cache_hits |-> "cache_hits"]

\* Number of rows up to position i that have the given metric name.
RowsNamedUpTo(i, name) ==
    Cardinality({j \in 1..i : rpcData.rows[j].metric_name = name})

\* The series that hold a point with the timestamp of row i.
SeriesHolding(i) ==
    {n \in DOMAIN ChartedName :
        \E k \in DOMAIN metrics.series[n] :
            metrics.series[n][k].timestamp = rpcData.rows[i].timestamp}

\* C19: each of the four series holds exactly the returned rows with its
\* metric name, in the order returned; every row is in at most one series
\* and a row with any other metric name is in none.
C19_SeriesPartitionRowsByName ==
    metrics.defined =>
        /\ \A n \in DOMAIN ChartedName :
              /\ Len(metrics.series[n]) = RowsNamedUpTo(Len(rpcData.rows), ChartedName[n])
              /\ \A i \in DOMAIN rpcData.rows :
                    rpcData.rows[i].metric_name = ChartedName[n]
                       => metrics.series[n][RowsNamedUpTo(i, ChartedName[n])]
                             = [timestamp |-> rpcData.rows[i].timestamp,
                                value |-> rpcData.rows[i].current_value]
        /\ \A i \in DOMAIN rpcData.rows :
              /\ Cardinality(SeriesHolding(i)) <= 1
              /\ rpcData.rows[i].metric_name \notin {ChartedName[n] : n \in DOMAIN ChartedName}
                    => SeriesHolding(i) = {}

\* C19 witness: a query_time row, a row of an uncharted metric and a second
\* query_time row were returned.
C19_Witness ==
    /\ metrics.defined
    /\ Len(rpcData.rows) = 3
    /\ rpcData.rows[1].metric_name = "query_time"
    /\ rpcData.rows[2].metric_name = "disk_usage"
    /\ rpcData.rows[3].metric_name = "query_time"
    /\ Len(metrics.series["query_times"]) = 2
    /\ metrics.series["query_times"][2].timestamp = 3

\* C20: a submit of the template form opened through 'New Template' issues
\* an insert (one more create mutation) and no update, whatever was clicked
\* before.
C20_NewTemplateSubmitInserts ==
    [][(/\ isDialogOpen
        /\ dialogOpenedBy = "new"
        /\ Len(updatesInFlight') + createsInFlight'
              > Len(updatesInFlight) + createsInFlight)
          => /\ updatesInFlight' = updatesInFlight
             /\ createsInFlight' = createsInFlight + 1
             /\ lastSubmit'.fn = "insert"]_vars

\* C21: while a receipt download of a payment is running, that payment's
\* download button is disabled (and shows the spinner), whatever downloads
\* of other payments start or complete.
C21_RunningDownloadDisablesButton ==
    \A id \in HistoryPaymentIds :
        runningDownloads[id] > 0 => DownloadButtonDisabled(id)

\* The payment of the last call lacks the member relation, the member's
\* full name or the member's email.
CalledWithoutMemberInfo ==
    /\ notifyArgs.notificationType # "none"
    /\ \/ ~notifyArgs.payment.members.present
       \/ notifyArgs.payment.members.full_name = Missing
       \/ notifyArgs.payment.members.email = Missing

\* C25: for a payment without member relation, member name or member email
\* sendPaymentNotification sends no email and returns normally, whatever the
\* notification type and due date are (a reminder without due date too).
C25_MissingMemberInfoReturnsQuietly ==
    CalledWithoutMemberInfo =>
        /\ notifyEmails = <<>>
        /\ notifyPc = "idle"
        /\ notifyOutcome = [kind |-> "returned", error |-> Missing]

\* C25 witness: a reminder without due date was requested for a payment
\* whose member has a name but no email.
C25_Witness ==
    /\ notifyArgs.notificationType = "reminder"
    /\ notifyArgs.dueDate = Missing
    /\ notifyArgs.payment.members.present
    /\ notifyArgs.payment.members.full_name = "Ann"
    /\ notifyArgs.payment.members.email = Missing
    /\ notifyOutcome.kind = "returned"

\* The payment of the last call has member name and email.
CalledWithMemberInfo ==
    /\ notifyArgs.notificationType # "none"
    /\ notifyArgs.payment.members.present
    /\ notifyArgs.payment.members.full_name # Missing
    /\ notifyArgs.payment.members.email # Missing

\* Exactly one email was sent, to the member, with the given heading.
OneEmailToMember(heading) ==
    /\ Len(notifyEmails) = 1
    /\ notifyEmails[1].to = notifyArgs.payment.members.email
    /\ notifyEmails[1].html.heading = heading

\* A confirmation sends one email to the member whose subject contains the
\* payment number; a reminder without due date raises and sends nothing.
ConfirmationAndMissingDueDate ==
    /\ notifyArgs.notificationType = "confirmation"
          => /\ OneEmailToMember("Payment Confirmation")
             /\ \E k \in DOMAIN notifyEmails[1].subject :
                   notifyEmails[1].subject[k] = notifyArgs.payment.payment_number
    /\ (notifyArgs.notificationType = "reminder" /\ notifyArgs.dueDate = Missing)
          => /\ notifyEmails = <<>>
             /\ notifyOutcome = [kind |-> "raised", error |-> DueDateRequired]

C22_TestDialogOpensWithoutError ==
    [][(~testEmailDialogOpen /\ testEmailDialogOpen') => smtpError' = Missing]_vars

C23_LoadingEndsWithSubmission ==
    /\ [](isLoading <=> rpPc \in {"validating", "resetting"})
    /\ [](isLoading <=> Len(rpCalls) > Len(rpResults))
    /\ isLoading ~> ~isLoading

\* C23 witness: a submission whose reset call rejected has finished.
C23_Witness ==
    /\ mounted = "ResetPasswordForm"
    /\ rpPc = "done"
    /\ Len(rpResults) = 2
    /\ rpResults[2].threw
    /\ ~isLoading

ResetFn == "handle_password_reset_with_token"

\* The results of this submission that are successful token validations.
SuccessfulValidations ==
    {k \in DOMAIN rpResults :
        /\ rpCalls[k].fn = "validate_reset_token"
        /\ ~rpResults[k].threw
        /\ ~rpResults[k].error
        /\ rpResults[k].data}

\* C24: while isLoading nothing can be typed and no submission starts; at
\* most one remote call is awaited at a time; the reset call is issued at
\* most once per successful token validation.
C24_OneSubmissionAtATime ==
    [][/\ Len(rpCalls) - Len(rpResults) \in {0, 1}
       /\ CountCalls(rpCalls, ResetFn) = Cardinality(SuccessfulValidations)
       /\ CountCalls(rpCalls, ResetFn) <= 1
       /\ isLoading =>
            /\ newPassword' = newPassword
            /\ confirmPassword' = confirmPassword
            /\ Len(rpCalls') >= Len(rpCalls)
            /\ rpPc' = "validating" => rpPc = "validating"]_vars

\* C24 witness: the reset call of a submission is awaited.
C24_Witness ==
    /\ rpPc = "resetting"
    /\ isLoading
    /\ CountCalls(rpCalls, ResetFn) = 1
    /\ Len(rpCalls) = 2 /\ Len(rpResults) = 1

\* The ids held by a list of ids.
IdsOf(ids) == {ids[k] : k \in DOMAIN ids}

\* C28: openCollectors never holds an id twice and holds an id exactly when
\* the id was toggled an odd number of times; a toggle changes the
\* membership of one id only, and toggling an id twice gives back the same
\* set of ids.
C28_OpenCollectorsIsToggleParity ==
    [][/\ \A j, k \in DOMAIN openCollectors :
             openCollectors[j] = openCollectors[k] => j = k
       /\ IdsOf(openCollectors) = toggledOdd
       /\ openCollectors' # openCollectors =>
             \E k \in DOMAIN sortedCollectors :
                 LET id == sortedCollectors[k].id
                     without == IdsOf(openCollectors) \ {id}
                 IN /\ IdsOf(openCollectors') \ {id} = without
                    /\ id \in IdsOf(openCollectors') <=> id \notin IdsOf(openCollectors)
       /\ \A k \in DOMAIN sortedCollectors :
             IdsOf(Toggled(Toggled(openCollectors, sortedCollectors[k].id),
                           sortedCollectors[k].id))
                = IdsOf(openCollectors)]_vars

\* C28 witness: two collectors are open, the second of the list opened
\* before the first.
C28_Witness ==
    /\ Len(openCollectors) = 2
    /\ Len(sortedCollectors) >= 2
    /\ openCollectors[1] = sortedCollectors[2].id
    /\ openCollectors[2] = sortedCollectors[1].id
    /\ toggledOdd = IdsOf(openCollectors)

====
